---------------------------- MODULE Spec2Model ----------------------------
(***************************************************************************)
(* Model of bm::aggregator<BV> (src/src/bmaggregator.h): multi-way OR,     *)
(* AND, AND-SUB, find-first and SHIFT-RIGHT-AND over block-organised bit   *)
(* vectors.  The address space is scaled down: a vector is a grid of       *)
(* set_array_size x set_array_size blocks of gap_max_bits bits each.       *)
(* A block is a record [k, b]: k is the representation of the slot         *)
(* ("null", "full" = FULL_BLOCK_FAKE_ADDR / FULL_BLOCK_REAL_ADDR, "gap",   *)
(* "bit") and b the set of bit positions set in it.                        *)
(***************************************************************************)
EXTENDS Integers, Sequences, FiniteSets, TLC

VARIABLES
    arg_bv0,        \* ar_->arg_bv0[0 .. arg_group0_size-1]
    arg_bv1,        \* ar_->arg_bv1[0 .. arg_group1_size-1]
    ar,             \* the arena: tb1, v_arg_blk, v_arg_blk_gap, carry_overs_
    bv_target,      \* the caller's target vector
    call            \* the last call: operation, inputs, outcome

vars == <<arg_bv0, arg_bv1, ar, bv_target, call>>

-----------------------------------------------------------------------------
(* Geometry (scaled) *)

\* bm::set_array_size: slots per top directory and per sub-directory
set_array_size == 4
\* bm::gap_max_bits: bits per block
gap_max_bits == 4
\* bits covered by one digest bit (bm::set_block_digest_wave_size words)
digest_wave_bits == 2
\* bits per bm::word_t
word_bits == 2
\* aggregator::max_aggregator_cap, scaled
max_aggregator_cap == 8

set_total_blocks == set_array_size * set_array_size
id_max == set_total_blocks * gap_max_bits - 1
\* bm::id_t arithmetic wraps at the width that holds id_max
id_modulus == id_max + 1

Bits == 0 .. (gap_max_bits - 1)
Waves == 0 .. ((gap_max_bits \div digest_wave_bits) - 1)
WaveBits(d) == {b \in Bits : b \div digest_wave_bits = d}
WavesBits(dg) == {b \in Bits : (b \div digest_wave_bits) \in dg}
AllWaves == Waves
\* the bits of blk[0] and the top bit of blk[bm::set_block_size-1]
Word0 == 0 .. (word_bits - 1)
LastBit == gap_max_bits - 1

Max2(a, b) == IF a > b THEN a ELSE b
\* F at v: gives a name to a value that is used more than once; v is
\* evaluated first, as a statement that assigns it is
With(v, F(_)) == IF v = v THEN F(v) ELSE F(v)

-----------------------------------------------------------------------------
(* Blocks and the pointer-tagging helpers *)

NullBlk == [k |-> "null", b |-> {}]
FullBlk == [k |-> "full", b |-> Bits]
GapBlk(s) == [k |-> "gap", b |-> s]
BitBlk(s) == [k |-> "bit", b |-> s]
\* content of memory that was never written
JunkBlk == [k |-> "junk", b |-> {}]

BM_IS_GAP(p) == p.k = "gap"
IS_FULL_BLOCK(p) == p.k = "full"
IS_NULL(p) == p.k = "null"

-----------------------------------------------------------------------------
(* The bit-vector container (external collaborator) *)

\* a vector: init = blocks tree allocated, top_size = top_block_size(),
\* rows = the top entries that point to a sub-directory, blk = the slots,
\* log = the block numbers stored into the directory, in the order of the
\* stores, since the vector was last cleared
NewBv(sz) ==
    [init |-> FALSE, top_size |-> set_array_size, size |-> sz,
     rows |-> {}, blk |-> [n \in 0 .. (set_total_blocks - 1) |-> NullBlk],
     log |-> <<>>]

\* blocks_manager::get_block_ptr(i, j): the raw slot, null outside the tree
get_block_ptr(bv, i, j) ==
    IF bv.init /\ i < bv.top_size /\ i \in bv.rows /\ j < set_array_size
    THEN bv.blk[i * set_array_size + j]
    ELSE NullBlk

\* blocks_manager::get_block(i, j): as get_block_ptr, FULL_BLOCK_FAKE_ADDR
\* canonicalised to FULL_BLOCK_REAL_ADDR (both are kind "full" here)
get_block(bv, i, j) == get_block_ptr(bv, i, j)

\* blocks_manager::get_topblock(i): is there a sub-directory for row i
get_topblock(bv, i) == bv.init /\ i < bv.top_size /\ i \in bv.rows

\* bvector::clear(): every bit zero, the tree and the size are kept
bv_clear(bv) ==
    [bv EXCEPT !.blk = [n \in 0 .. (set_total_blocks - 1) |-> NullBlk],
               !.log = <<>>]

\* blocks_manager::init_tree()
init_tree(bv) == [bv EXCEPT !.init = TRUE]

\* blocks_manager::reserve_top_blocks(n)
reserve_top_blocks(bv, n) ==
    IF n > bv.top_size THEN [bv EXCEPT !.top_size = n] ELSE bv

\* store a slot value at (i, j), allocating the tree, the top entry and the
\* sub-directory as the blocks manager does
PutBlock(bv, i, j, p) ==
    [bv EXCEPT !.init = TRUE,
               !.top_size = Max2(bv.top_size, i + 1),
               !.rows = bv.rows \cup {i},
               !.blk[i * set_array_size + j] = p,
               !.log = Append(bv.log, i * set_array_size + j)]

\* blocks_manager::copy_bit_block(i, j, src)
copy_bit_block(bv, i, j, src) == PutBlock(bv, i, j, BitBlk(src))

\* blocks_manager::check_alloc_top_subblock(i) then set_block_ptr(i, j, p),
\* and blocks_manager::set_block(i, j, p, false)
set_block(bv, i, j, p) == PutBlock(bv, i, j, p)

\* the bits of a vector as absolute indexes
BvBits(bv) ==
    UNION {{n * gap_max_bits + b : b \in bv.blk[n].b} :
               n \in 0 .. (set_total_blocks - 1)}

-----------------------------------------------------------------------------
(* Block kernels (external collaborator) *)

\* bm::calc_block_digest0
calc_block_digest0(blk) == {d \in Waves : WaveBits(d) \cap blk # {}}

\* bm::update_block_digest0: only clears bits of the digest
update_block_digest0(blk, digest) ==
    {d \in digest : WaveBits(d) \cap blk # {}}

\* bm::bit_block_and_2way: dst = a & b on the waves of the digest
bit_block_and_2way(dst, a, b, digest) ==
    LET r == (dst \ WavesBits(digest)) \cup ((a \cap b) \cap WavesBits(digest))
    IN  [blk |-> r, digest |-> update_block_digest0(r, digest)]

\* bm::bit_block_and: dst &= a on the waves of the digest
bit_block_and(dst, a, digest) ==
    LET r == (dst \ WavesBits(digest)) \cup ((dst \cap a) \cap WavesBits(digest))
    IN  [blk |-> r, digest |-> update_block_digest0(r, digest)]

\* bm::bit_block_sub: dst &= ~a on the waves of the digest
bit_block_sub(dst, a, digest) ==
    LET r == (dst \ WavesBits(digest)) \cup ((dst \ a) \cap WavesBits(digest))
    IN  [blk |-> r, digest |-> update_block_digest0(r, digest)]

\* bm::gap_and_to_bitset(dst, gap, digest)
gap_and_to_bitset_dg(dst, gap, digest) ==
    (dst \ WavesBits(digest)) \cup ((dst \cap gap) \cap WavesBits(digest))

\* bm::gap_sub_to_bitset(dst, gap, digest)
gap_sub_to_bitset_dg(dst, gap, digest) ==
    (dst \ WavesBits(digest)) \cup ((dst \ gap) \cap WavesBits(digest))

\* bm::gap_and_to_bitset(dst, gap)
gap_and_to_bitset(dst, gap) == dst \cap gap

\* bm::gap_add_to_bitset(dst, gap)
gap_add_to_bitset(dst, gap) == dst \cup gap

\* bm::is_bits_one
is_bits_one(blk) == blk = Bits

\* bm::bit_is_all_zero
bit_is_all_zero(blk) == blk = {}

\* bm::bit_find_first: position of the first set bit (block is not empty)
bit_find_first(blk) == CHOOSE b \in blk : \A c \in blk : b <= c

\* bm::bit_block_shift_r1_unr: shift right by one with carry in;
\* acc = block not empty afterwards, co = the bit shifted out
bit_block_shift_r1_unr(blk, carry_in) ==
    LET r == {b + 1 : b \in blk \ {gap_max_bits - 1}}
             \cup (IF carry_in = 1 THEN {0} ELSE {})
    IN  [blk |-> r, acc |-> r # {},
         co |-> IF (gap_max_bits - 1) \in blk THEN 1 ELSE 0]

\* bm::bit_block_shift_r1_and_unr: fused shift right by one and AND
bit_block_shift_r1_and_unr(blk, arg, carry_in) ==
    LET s == bit_block_shift_r1_unr(blk, carry_in)
        r == s.blk \cap arg
    IN  [blk |-> r, acc |-> r # {}, co |-> s.co]

-----------------------------------------------------------------------------
(* The arena and the block sorters *)

CapIdx == 0 .. (max_aggregator_cap - 1)

\* aggregator::aggregator(): the arena is allocated, nothing in it is written
NewArena(junk) ==
    [tb1 |-> junk,
     v_arg_blk |-> [x \in CapIdx |-> JunkBlk],
     v_arg_blk_gap |-> [x \in CapIdx |-> JunkBlk],
     carry_overs |-> [x \in CapIdx |-> 0]]

\* the loop of sort_input_blocks_or from source k on; read = the number of
\* sources whose block pointer was fetched when the loop was left
RECURSIVE sort_or_k(_, _, _, _, _, _, _)
sort_or_k(a, bv_src, i, j, k, cnt, gcnt) ==
    IF k >= Len(bv_src)
    THEN [blk |-> "null", ar |-> a, cnt |-> cnt, gcnt |-> gcnt, read |-> k]
    ELSE LET arg_blk == get_block_ptr(bv_src[k + 1], i, j) IN
         IF IS_NULL(arg_blk)
         THEN sort_or_k(a, bv_src, i, j, k + 1, cnt, gcnt)
         ELSE IF BM_IS_GAP(arg_blk)
         THEN sort_or_k([a EXCEPT !.v_arg_blk_gap[gcnt] = arg_blk],
                        bv_src, i, j, k + 1, cnt, gcnt + 1)
         ELSE IF IS_FULL_BLOCK(arg_blk)
         THEN [blk |-> "fake", ar |-> a, cnt |-> 0, gcnt |-> 0, read |-> k + 1]
         ELSE sort_or_k([a EXCEPT !.v_arg_blk[cnt] = arg_blk],
                        bv_src, i, j, k + 1, cnt + 1, gcnt)

\* variant: the scan starts at the second source
sort_input_blocks_or_from1(a, bv_src, i, j) == sort_or_k(a, bv_src, i, j, 1, 0, 0)

\* aggregator::sort_input_blocks_or; the caller's counts are 0 on entry
sort_input_blocks_or(a, bv_src, i, j) == sort_or_k(a, bv_src, i, j, 0, 0, 0)

RECURSIVE sort_and_k(_, _, _, _, _, _, _)
sort_and_k(a, bv_src, i, j, k, cnt, gcnt) ==
    IF k >= Len(bv_src)
    THEN [blk |-> "fake", ar |-> a, cnt |-> cnt, gcnt |-> gcnt]
    ELSE LET arg_blk == get_block_ptr(bv_src[k + 1], i, j) IN
         IF IS_NULL(arg_blk)
         THEN [blk |-> "null", ar |-> a, cnt |-> 0, gcnt |-> 0]
         ELSE IF BM_IS_GAP(arg_blk)
         THEN sort_and_k([a EXCEPT !.v_arg_blk_gap[gcnt] = arg_blk],
                         bv_src, i, j, k + 1, cnt, gcnt + 1)
         ELSE sort_and_k([a EXCEPT !.v_arg_blk[cnt] =
                                IF IS_FULL_BLOCK(arg_blk) THEN FullBlk ELSE arg_blk],
                         bv_src, i, j, k + 1, cnt + 1, gcnt)

sort_input_blocks_and(a, bv_src, i, j) == sort_and_k(a, bv_src, i, j, 0, 0, 0)

-----------------------------------------------------------------------------
(* Per-block reducers: OR *)

\* r with the indices rd put in front of the indices it lists
Reads(rd, r) == [r EXCEPT !.rd = rd \o r.rd]

\* the fold result: the scratch block, whether a kernel reported all ones,
\* and rd, the indices of v_arg_blk that were read, in order
RECURSIVE pbo_single(_, _, _, _)
pbo_single(blk, vb, k, cnt) ==
    IF k < cnt
    THEN With(blk \cup vb[k].b, LAMBDA r :
         IF is_bits_one(r) THEN [tb1 |-> r, all_one |-> TRUE, rd |-> <<k>>]
         ELSE Reads(<<k>>, pbo_single(r, vb, k + 1, cnt)))
    ELSE [tb1 |-> blk, all_one |-> FALSE, rd |-> <<>>]

RECURSIVE pbo_3way(_, _, _, _, _)
pbo_3way(blk, vb, k, len_unr, cnt) ==
    IF k < len_unr
    THEN With(blk \cup vb[k].b \cup vb[k + 1].b, LAMBDA r :
         IF is_bits_one(r)
         THEN [tb1 |-> r, all_one |-> TRUE, rd |-> <<k, k + 1>>]
         ELSE Reads(<<k, k + 1>>, pbo_3way(r, vb, k + 2, len_unr, cnt)))
    ELSE pbo_single(blk, vb, k, cnt)

RECURSIVE pbo_5way(_, _, _, _, _)
pbo_5way(blk, vb, k, len_unr, cnt) ==
    IF k < len_unr
    THEN With(blk \cup vb[k].b \cup vb[k + 1].b
                  \cup vb[k + 2].b \cup vb[k + 3].b, LAMBDA r :
         IF is_bits_one(r)
         THEN [tb1 |-> r, all_one |-> TRUE, rd |-> <<k, k + 1, k + 2, k + 3>>]
         ELSE Reads(<<k, k + 1, k + 2, k + 3>>,
                    pbo_5way(r, vb, k + 4, len_unr, cnt)))
    ELSE pbo_3way(blk, vb, k, (cnt - k) - ((cnt - k) % 2), cnt)

\* variant: the unrolled length is taken from the whole count, the block
\* that was copied included
process_bit_blocks_or_len(a, cnt) ==
    IF cnt > 0
    THEN Reads(<<0>>, pbo_5way(a.v_arg_blk[0].b, a.v_arg_blk, 1,
                               cnt - (cnt % 4), cnt))
    ELSE pbo_5way({}, a.v_arg_blk, 0, 0, cnt)

\* aggregator::process_bit_blocks_or; the FULL_BLOCK_FAKE_ADDR commit on
\* all_one is made by the caller below from the all_one flag
process_bit_blocks_or(a, cnt) ==
    IF cnt > 0
    THEN Reads(<<0>>, pbo_5way(a.v_arg_blk[0].b, a.v_arg_blk, 1,
                               (cnt - 1) - ((cnt - 1) % 4), cnt))
    ELSE pbo_5way({}, a.v_arg_blk, 0, 0, cnt)

RECURSIVE pgo_k(_, _, _, _)
pgo_k(blk, vg, k, gcnt) ==
    IF k < gcnt THEN pgo_k(gap_add_to_bitset(blk, vg[k].b), vg, k + 1, gcnt)
    ELSE blk

\* variant: the GAP fold stops one block short
process_gap_blocks_or_short(a, gcnt) ==
    LET r == pgo_k(a.tb1, a.v_arg_blk_gap, 0, gcnt - 1)
    IN  [tb1 |-> r, all_one |-> is_bits_one(r)]

\* aggregator::process_gap_blocks_or
process_gap_blocks_or(a, gcnt) ==
    LET r == pgo_k(a.tb1, a.v_arg_blk_gap, 0, gcnt)
    IN  [tb1 |-> r, all_one |-> is_bits_one(r)]

\* variant of combine_or(i, j): the scratch block is copied to the target
\* also after the all-ones sentinel was stored
combine_or_ij_twice(st, i, j, bv_src) ==
    With(sort_input_blocks_or(st.ar, bv_src, i, j), LAMBDA s :
    IF s.blk = "fake"
    THEN [tgt |-> set_block(st.tgt, i, j, FullBlk), ar |-> s.ar]
    ELSE IF s.cnt > 0 \/ s.gcnt > 0
    THEN With(process_bit_blocks_or(s.ar, s.cnt), LAMBDA p :
         With(IF p.all_one THEN set_block(st.tgt, i, j, FullBlk) ELSE st.tgt,
              LAMBDA t1 :
         With(IF s.gcnt > 0
              THEN process_gap_blocks_or([s.ar EXCEPT !.tb1 = p.tb1], s.gcnt)
              ELSE [tb1 |-> p.tb1, all_one |-> FALSE], LAMBDA g :
              IF g.all_one
              THEN [tgt |-> set_block(t1, i, j, FullBlk),
                    ar |-> [s.ar EXCEPT !.tb1 = g.tb1]]
              ELSE [tgt |-> copy_bit_block(t1, i, j, g.tb1),
                    ar |-> [s.ar EXCEPT !.tb1 = g.tb1]])))
    ELSE [tgt |-> st.tgt, ar |-> s.ar])

\* aggregator::combine_or(i, j, ...): st = [tgt, ar]
combine_or_ij(st, i, j, bv_src) ==
    With(sort_input_blocks_or(st.ar, bv_src, i, j), LAMBDA s :
    IF s.blk = "fake"
    THEN [tgt |-> set_block(st.tgt, i, j, FullBlk), ar |-> s.ar]
    ELSE IF s.cnt > 0 \/ s.gcnt > 0
    THEN With(process_bit_blocks_or(s.ar, s.cnt), LAMBDA p :
         IF p.all_one
         THEN [tgt |-> set_block(st.tgt, i, j, FullBlk),
               ar |-> [s.ar EXCEPT !.tb1 = p.tb1]]
         ELSE With(IF s.gcnt > 0
                   THEN process_gap_blocks_or([s.ar EXCEPT !.tb1 = p.tb1], s.gcnt)
                   ELSE [tb1 |-> p.tb1, all_one |-> FALSE], LAMBDA g :
              IF g.all_one
              THEN [tgt |-> set_block(st.tgt, i, j, FullBlk),
                    ar |-> [s.ar EXCEPT !.tb1 = g.tb1]]
              ELSE [tgt |-> copy_bit_block(st.tgt, i, j, g.tb1),
                    ar |-> [s.ar EXCEPT !.tb1 = g.tb1]]))
    ELSE [tgt |-> st.tgt, ar |-> s.ar])

-----------------------------------------------------------------------------
(* Per-block reducers: AND, SUB *)

\* one step of a reducer: the digest before it, the digest after it and
\* the scratch block after it
Fold(prev, dg, blk) == [prev |-> prev, dg |-> dg, blk |-> blk]
\* r with the step f put in front of the steps it lists
After(f, r) == [r EXCEPT !.tr = <<f>> \o r.tr]

\* the fold loops give the scratch block, the digest and tr, the steps made
RECURSIVE pba_k(_, _, _, _, _)
pba_k(blk, vb, k, cnt, digest) ==
    IF k < cnt
    THEN IF IS_FULL_BLOCK(vb[k]) THEN pba_k(blk, vb, k + 1, cnt, digest)
         ELSE With(bit_block_and(blk, vb[k].b, digest), LAMBDA r :
              IF r.digest = {}
              THEN [tb1 |-> r.blk, digest |-> r.digest,
                    tr |-> <<Fold(digest, r.digest, r.blk)>>]
              ELSE After(Fold(digest, r.digest, r.blk),
                         pba_k(r.blk, vb, k + 1, cnt, r.digest)))
    ELSE [tb1 |-> blk, digest |-> digest, tr |-> <<>>]

\* variant: the fold after the 2-way start skips the next plain block
process_bit_blocks_and_skip(a, cnt, digest) ==
    IF cnt = 0
    THEN [tb1 |-> Bits, digest |-> AllWaves,
          tr |-> <<Fold(AllWaves, AllWaves, Bits)>>]
    ELSE IF cnt = 1
    THEN [tb1 |-> a.v_arg_blk[0].b,
          digest |-> calc_block_digest0(a.v_arg_blk[0].b),
          tr |-> <<Fold(AllWaves, calc_block_digest0(a.v_arg_blk[0].b),
                        a.v_arg_blk[0].b)>>]
    ELSE With(bit_block_and_2way(a.tb1, a.v_arg_blk[0].b, a.v_arg_blk[1].b,
                                 AllWaves),
              LAMBDA r : After(Fold(AllWaves, r.digest, r.blk),
                               pba_k(r.blk, a.v_arg_blk, 3, cnt, r.digest)))

\* variant: the digest of a single plain block is not computed
process_bit_blocks_and_nodigest(a, cnt, digest) ==
    IF cnt = 0
    THEN [tb1 |-> Bits, digest |-> AllWaves,
          tr |-> <<Fold(AllWaves, AllWaves, Bits)>>]
    ELSE IF cnt = 1
    THEN [tb1 |-> a.v_arg_blk[0].b, digest |-> AllWaves,
          tr |-> <<Fold(AllWaves, AllWaves, a.v_arg_blk[0].b)>>]
    ELSE With(bit_block_and_2way(a.tb1, a.v_arg_blk[0].b, a.v_arg_blk[1].b,
                                 AllWaves),
              LAMBDA r : After(Fold(AllWaves, r.digest, r.blk),
                               pba_k(r.blk, a.v_arg_blk, 2, cnt, r.digest)))

\* aggregator::process_bit_blocks_and; the first step listed is the one
\* that sets the digest up
process_bit_blocks_and(a, cnt, digest) ==
    IF cnt = 0
    THEN [tb1 |-> Bits, digest |-> AllWaves,
          tr |-> <<Fold(AllWaves, AllWaves, Bits)>>]
    ELSE IF cnt = 1
    THEN [tb1 |-> a.v_arg_blk[0].b,
          digest |-> calc_block_digest0(a.v_arg_blk[0].b),
          tr |-> <<Fold(AllWaves, calc_block_digest0(a.v_arg_blk[0].b),
                        a.v_arg_blk[0].b)>>]
    ELSE With(bit_block_and_2way(a.tb1, a.v_arg_blk[0].b, a.v_arg_blk[1].b,
                                 AllWaves),
              LAMBDA r : After(Fold(AllWaves, r.digest, r.blk),
                               pba_k(r.blk, a.v_arg_blk, 2, cnt, r.digest)))

RECURSIVE pga_k(_, _, _, _, _)
pga_k(blk, vg, k, gcnt, digest) ==
    IF k < gcnt
    THEN With(gap_and_to_bitset_dg(blk, vg[k].b, digest), LAMBDA b1 :
         With(update_block_digest0(b1, digest), LAMBDA d1 :
              IF d1 = {}
              THEN [tb1 |-> b1, digest |-> d1, tr |-> <<Fold(digest, d1, b1)>>]
              ELSE After(Fold(digest, d1, b1), pga_k(b1, vg, k + 1, gcnt, d1))))
    ELSE [tb1 |-> blk, digest |-> digest, tr |-> <<>>]

\* aggregator::process_gap_blocks_and
process_gap_blocks_and(a, gcnt, digest) ==
    pga_k(a.tb1, a.v_arg_blk_gap, 0, gcnt, digest)

RECURSIVE pbs_k(_, _, _, _, _)
pbs_k(blk, vb, k, cnt, digest) ==
    IF k < cnt
    THEN IF IS_FULL_BLOCK(vb[k])
         THEN [tb1 |-> blk, digest |-> {}, tr |-> <<Fold(digest, {}, blk)>>]
         ELSE With(bit_block_sub(blk, vb[k].b, digest), LAMBDA r :
              IF r.digest = {}
              THEN [tb1 |-> r.blk, digest |-> r.digest,
                    tr |-> <<Fold(digest, r.digest, r.blk)>>]
              ELSE After(Fold(digest, r.digest, r.blk),
                         pbs_k(r.blk, vb, k + 1, cnt, r.digest)))
    ELSE [tb1 |-> blk, digest |-> digest, tr |-> <<>>]

\* aggregator::process_bit_blocks_sub
process_bit_blocks_sub(a, cnt, digest) ==
    pbs_k(a.tb1, a.v_arg_blk, 0, cnt, digest)

RECURSIVE pgs_k(_, _, _, _, _)
pgs_k(blk, vg, k, gcnt, digest) ==
    IF k < gcnt
    THEN With(gap_sub_to_bitset_dg(blk, vg[k].b, digest), LAMBDA b1 :
         With(update_block_digest0(b1, digest), LAMBDA d1 :
              IF d1 = {}
              THEN [tb1 |-> b1, digest |-> d1, tr |-> <<Fold(digest, d1, b1)>>]
              ELSE After(Fold(digest, d1, b1), pgs_k(b1, vg, k + 1, gcnt, d1))))
    ELSE [tb1 |-> blk, digest |-> digest, tr |-> <<>>]

\* aggregator::process_gap_blocks_sub
process_gap_blocks_sub(a, gcnt, digest) ==
    pgs_k(a.tb1, a.v_arg_blk_gap, 0, gcnt, digest)

\* the AND part shared by combine_and(i, j) and combine_and_sub(i, j):
\* the arena afterwards, the digest (empty = nothing to commit) and tr, the
\* steps of the reducers in the order they were made
and_part(a0, i, j, bv_src) ==
    With(sort_input_blocks_and(a0, bv_src, i, j), LAMBDA s :
    IF s.blk = "null" THEN [ar |-> s.ar, digest |-> {}, tr |-> <<>>]
    ELSE IF s.cnt > 0 \/ s.gcnt > 0
    THEN With(process_bit_blocks_and(s.ar, s.cnt, {}), LAMBDA p :
         IF p.digest = {}
         THEN [ar |-> [s.ar EXCEPT !.tb1 = p.tb1], digest |-> {}, tr |-> p.tr]
         ELSE IF s.gcnt > 0
         THEN With(process_gap_blocks_and([s.ar EXCEPT !.tb1 = p.tb1], s.gcnt,
                                          p.digest), LAMBDA g :
                   [ar |-> [s.ar EXCEPT !.tb1 = g.tb1], digest |-> g.digest,
                    tr |-> p.tr \o g.tr])
         ELSE [ar |-> [s.ar EXCEPT !.tb1 = p.tb1], digest |-> p.digest,
               tr |-> p.tr])
    ELSE [ar |-> s.ar, digest |-> {}, tr |-> <<>>])

\* variant of combine_and(i, j): the scratch block is stored whatever the
\* digest
combine_and_ij_always(st, i, j, bv_src) ==
    With(and_part(st.ar, i, j, bv_src), LAMBDA r :
    [tgt |-> copy_bit_block(st.tgt, i, j, r.ar.tb1), ar |-> r.ar])

\* aggregator::combine_and(i, j, ...)
combine_and_ij(st, i, j, bv_src) ==
    With(and_part(st.ar, i, j, bv_src), LAMBDA r :
    IF r.digest # {}
    THEN [tgt |-> copy_bit_block(st.tgt, i, j, r.ar.tb1), ar |-> r.ar,
          digest |-> r.digest, tr |-> r.tr]
    ELSE [tgt |-> st.tgt, ar |-> r.ar, digest |-> r.digest, tr |-> r.tr])

\* variant: a uniform all-ones block of the SUB group is not recognised
combine_and_sub_ij_nofull(a0, i, j, bv_src_and, bv_src_sub) ==
    With(and_part(a0, i, j, bv_src_and), LAMBDA r :
    IF r.digest = {} \/ Len(bv_src_sub) = 0 THEN r
    ELSE With(sort_input_blocks_or(r.ar, bv_src_sub, i, j), LAMBDA s :
         IF s.cnt > 0 \/ s.gcnt > 0
         THEN With(process_bit_blocks_sub(s.ar, s.cnt, r.digest), LAMBDA p :
              IF p.digest = {}
              THEN [ar |-> [s.ar EXCEPT !.tb1 = p.tb1], digest |-> {},
                    tr |-> r.tr \o p.tr]
              ELSE IF s.gcnt > 0
              THEN With(process_gap_blocks_sub([s.ar EXCEPT !.tb1 = p.tb1],
                                               s.gcnt, p.digest), LAMBDA g :
                        [ar |-> [s.ar EXCEPT !.tb1 = g.tb1], digest |-> g.digest,
                         tr |-> r.tr \o p.tr \o g.tr])
              ELSE [ar |-> [s.ar EXCEPT !.tb1 = p.tb1], digest |-> p.digest,
                    tr |-> r.tr \o p.tr])
         ELSE [ar |-> s.ar, digest |-> r.digest, tr |-> r.tr]))

\* aggregator::combine_and_sub(i, j, ...): the arena and the digest returned
combine_and_sub_ij(a0, i, j, bv_src_and, bv_src_sub) ==
    With(and_part(a0, i, j, bv_src_and), LAMBDA r :
    IF r.digest = {} \/ Len(bv_src_sub) = 0 THEN r
    ELSE With(sort_input_blocks_or(r.ar, bv_src_sub, i, j), LAMBDA s :
         IF s.blk = "fake" THEN [ar |-> s.ar, digest |-> {}, tr |-> r.tr]
         ELSE IF s.cnt > 0 \/ s.gcnt > 0
         THEN With(process_bit_blocks_sub(s.ar, s.cnt, r.digest), LAMBDA p :
              IF p.digest = {}
              THEN [ar |-> [s.ar EXCEPT !.tb1 = p.tb1], digest |-> {},
                    tr |-> r.tr \o p.tr]
              ELSE IF s.gcnt > 0
              THEN With(process_gap_blocks_sub([s.ar EXCEPT !.tb1 = p.tb1],
                                               s.gcnt, p.digest), LAMBDA g :
                        [ar |-> [s.ar EXCEPT !.tb1 = g.tb1], digest |-> g.digest,
                         tr |-> r.tr \o p.tr \o g.tr])
              ELSE [ar |-> [s.ar EXCEPT !.tb1 = p.tb1], digest |-> p.digest,
                    tr |-> r.tr \o p.tr])
         ELSE [ar |-> s.ar, digest |-> r.digest, tr |-> r.tr]))

-----------------------------------------------------------------------------
(* Target-size harmonization and the effective sub-block range *)

RECURSIVE resize_k(_, _, _, _, _)
resize_k(tgt, bv_src, k, top_blocks, size) ==
    IF k >= Len(bv_src) THEN [tgt |-> tgt, top_blocks |-> top_blocks]
    ELSE LET bv == bv_src[k + 1]
             t1 == IF bv.top_size > top_blocks
                   THEN reserve_top_blocks(tgt, bv.top_size) ELSE tgt
             tb == IF bv.top_size > top_blocks THEN t1.top_size ELSE top_blocks
             t2 == IF bv.size > size THEN [t1 EXCEPT !.size = bv.size] ELSE t1
         IN  resize_k(t2, bv_src, k + 1, tb, Max2(size, bv.size))

\* variant of resize_target that harmonizes the directory only
resize_target_nosize(bv_tgt, bv_src, init_clear) ==
    LET t0 == IF init_clear
              THEN (IF ~bv_tgt.init THEN init_tree(bv_tgt) ELSE bv_clear(bv_tgt))
              ELSE bv_tgt
        r == resize_k(t0, bv_src, 0, t0.top_size, t0.size)
    IN  [tgt |-> [r.tgt EXCEPT !.size = bv_tgt.size], top_blocks |-> r.top_blocks]

\* aggregator::resize_target
resize_target(bv_tgt, bv_src, init_clear) ==
    LET t0 == IF init_clear
              THEN (IF ~bv_tgt.init THEN init_tree(bv_tgt) ELSE bv_clear(bv_tgt))
              ELSE bv_tgt
    IN  resize_k(t0, bv_src, 0, t0.top_size, t0.size)

RECURSIVE fesbs_j(_, _, _, _)
fesbs_j(bv, i, j, max_size) ==
    IF j > max_size
    THEN IF ~IS_NULL(bv.blk[i * set_array_size + j]) THEN j
         ELSE fesbs_j(bv, i, j - 1, max_size)
    ELSE max_size

RECURSIVE fesbs_k(_, _, _, _)
fesbs_k(bv_src, i, k, max_size) ==
    IF k >= Len(bv_src) THEN max_size + 1
    ELSE IF ~get_topblock(bv_src[k + 1], i)
    THEN fesbs_k(bv_src, i, k + 1, max_size)
    ELSE fesbs_k(bv_src, i, k + 1,
                 fesbs_j(bv_src[k + 1], i, set_array_size - 1, max_size))

\* variant: only the first source is scanned
find_effective_sub_block_size_first(i, bv_src) ==
    fesbs_k(IF bv_src = <<>> THEN <<>> ELSE <<bv_src[1]>>, i, 0, 1)

\* aggregator::find_effective_sub_block_size
find_effective_sub_block_size(i, bv_src) == fesbs_k(bv_src, i, 0, 1)

-----------------------------------------------------------------------------
(* combine_or *)

RECURSIVE or_row(_, _, _, _, _)
or_row(st, i, j, set_array_max, bv_src) ==
    With(combine_or_ij(st, i, j, bv_src), LAMBDA r :
    With([tgt |-> r.tgt, ar |-> r.ar, seen |-> Append(st.seen, <<i, j>>)],
         LAMBDA st1 :
    IF j + 1 < set_array_max THEN or_row(st1, i, j + 1, set_array_max, bv_src)
    ELSE st1))

RECURSIVE or_rows(_, _, _, _)
or_rows(st, i, top_blocks, bv_src) ==
    IF i < top_blocks
    THEN or_rows(or_row(st, i, 0, find_effective_sub_block_size(i, bv_src), bv_src),
                 i + 1, top_blocks, bv_src)
    ELSE st

\* BM_ASSERT_THROW(x, BM_ERR_RANGE): TRUE when the macro throws
BM_ASSERT_THROW(x) == ~x

\* outcome of a call: the target, the arena, error, return value, index,
\* and seen, the coordinates (i, j) the block loops went through, in order
Outcome(tgt, a, err, ret, idx) ==
    [tgt |-> tgt, ar |-> a, err |-> err, ret |-> ret, idx |-> idx,
     seen |-> <<>>]

\* aggregator::combine_or(bv_target, bv_src, src_size)
combine_or(bv_tgt, bv_src, a) ==
    IF BM_ASSERT_THROW(Len(bv_src) < max_aggregator_cap)
    THEN Outcome(bv_tgt, a, "range", FALSE, 0)
    ELSE IF Len(bv_src) = 0
    THEN Outcome(bv_clear(bv_tgt), a, "none", FALSE, 0)
    ELSE With(resize_target(bv_tgt, bv_src, TRUE), LAMBDA rt :
         With(or_rows([tgt |-> rt.tgt, ar |-> a, seen |-> <<>>], 0,
                      rt.top_blocks, bv_src),
              LAMBDA st : [Outcome(st.tgt, st.ar, "none", FALSE, 0)
                              EXCEPT !.seen = st.seen]))

RECURSIVE or_horizontal_k(_, _, _)
or_horizontal_k(bits, bv_src, k) ==
    IF k >= Len(bv_src) THEN bits
    ELSE or_horizontal_k(bits \cup BvBits(bv_src[k + 1]), bv_src, k + 1)

\* aggregator::combine_or_horizontal: the bits of the target afterwards
combine_or_horizontal(bv_src) ==
    IF Len(bv_src) = 0 THEN {}
    ELSE or_horizontal_k(BvBits(bv_src[1]), bv_src, 1)

-----------------------------------------------------------------------------
(* combine_and, combine_and_sub, find_first_and_sub *)

RECURSIVE and_row(_, _, _, _, _)
and_row(st, i, j, set_array_max, bv_src) ==
    With(combine_and_ij(st, i, j, bv_src), LAMBDA r :
    With([tgt |-> r.tgt, ar |-> r.ar, seen |-> Append(st.seen, <<i, j>>)],
         LAMBDA st1 :
    IF j + 1 < set_array_max THEN and_row(st1, i, j + 1, set_array_max, bv_src)
    ELSE st1))

RECURSIVE and_rows(_, _, _, _)
and_rows(st, i, top_blocks, bv_src) ==
    IF i < top_blocks
    THEN and_rows(and_row(st, i, 0, find_effective_sub_block_size(i, bv_src),
                          bv_src),
                  i + 1, top_blocks, bv_src)
    ELSE st

\* aggregator::combine_and(bv_target, bv_src, src_size)
combine_and(bv_tgt, bv_src, a) ==
    IF BM_ASSERT_THROW(Len(bv_src) < max_aggregator_cap)
    THEN Outcome(bv_tgt, a, "range", FALSE, 0)
    ELSE IF Len(bv_src) = 0
    THEN Outcome(bv_clear(bv_tgt), a, "none", FALSE, 0)
    ELSE With(resize_target(bv_tgt, bv_src, TRUE), LAMBDA rt :
         With(and_rows([tgt |-> rt.tgt, ar |-> a, seen |-> <<>>], 0,
                      rt.top_blocks, bv_src),
              LAMBDA st : [Outcome(st.tgt, st.ar, "none", FALSE, 0)
                              EXCEPT !.seen = st.seen]))

RECURSIVE and_horizontal_k(_, _, _)
and_horizontal_k(bits, bv_src, k) ==
    IF k >= Len(bv_src) THEN bits
    ELSE and_horizontal_k(bits \cap BvBits(bv_src[k + 1]), bv_src, k + 1)

\* aggregator::combine_and_horizontal: the bits of the target afterwards
combine_and_horizontal(bv_src) ==
    IF Len(bv_src) = 0 THEN {}
    ELSE and_horizontal_k(BvBits(bv_src[1]), bv_src, 1)

RECURSIVE sub_horizontal_k(_, _, _)
sub_horizontal_k(bits, bv_src, k) ==
    IF k >= Len(bv_src) THEN bits
    ELSE sub_horizontal_k(bits \ BvBits(bv_src[k + 1]), bv_src, k + 1)

\* aggregator::combine_and_sub_horizontal: the bits of the target afterwards
combine_and_sub_horizontal(bv_src_and, bv_src_sub) ==
    sub_horizontal_k(combine_and_horizontal(bv_src_and), bv_src_sub, 0)

\* variant: the range of the AND group alone
and_sub_array_max_and(i, bv_src_and, bv_src_sub) ==
    find_effective_sub_block_size(i, bv_src_and)

\* the sub-block range of row i in the AND-SUB and find-first drivers
and_sub_array_max(i, bv_src_and, bv_src_sub) ==
    LET m == find_effective_sub_block_size(i, bv_src_and) IN
    IF Len(bv_src_sub) > 0
    THEN Max2(m, find_effective_sub_block_size(i, bv_src_sub))
    ELSE m

\* the block loops of combine_and_sub: st = [tgt, ar, ret, seen]
RECURSIVE and_sub_scan(_, _, _, _, _, _, _, _)
and_sub_scan(st, i, j, set_array_max, top_blocks, bv_src_and, bv_src_sub, any) ==
    IF i >= top_blocks THEN st
    ELSE With(combine_and_sub_ij(st.ar, i, j, bv_src_and, bv_src_sub), LAMBDA r :
         With([tgt |-> IF r.digest # {}
                       THEN copy_bit_block(st.tgt, i, j, r.ar.tb1) ELSE st.tgt,
               ar |-> r.ar, ret |-> st.ret \/ r.digest # {},
               seen |-> Append(st.seen, <<i, j>>)], LAMBDA st1 :
         IF r.digest # {} /\ any THEN [st1 EXCEPT !.ret = TRUE]
         ELSE IF j + 1 < set_array_max
         THEN and_sub_scan(st1, i, j + 1, set_array_max, top_blocks,
                           bv_src_and, bv_src_sub, any)
         ELSE IF i + 1 < top_blocks
         THEN and_sub_scan(st1, i + 1, 0,
                           and_sub_array_max(i + 1, bv_src_and, bv_src_sub),
                           top_blocks, bv_src_and, bv_src_sub, any)
         ELSE st1))

\* variant: the any flag does not end the scan at the first block found
combine_and_sub_scanall(bv_tgt, bv_src_and, bv_src_sub, any, a) ==
    IF BM_ASSERT_THROW(Len(bv_src_and) < max_aggregator_cap)
         \/ BM_ASSERT_THROW(Len(bv_src_sub) < max_aggregator_cap)
    THEN Outcome(bv_tgt, a, "range", FALSE, 0)
    ELSE IF Len(bv_src_and) = 0
    THEN Outcome(bv_clear(bv_tgt), a, "none", FALSE, 0)
    ELSE With(resize_target(bv_tgt, bv_src_and, TRUE), LAMBDA rt :
         With(resize_target(rt.tgt, bv_src_sub, FALSE), LAMBDA rt2 :
         With(and_sub_scan([tgt |-> rt2.tgt, ar |-> a, ret |-> FALSE,
                            seen |-> <<>>], 0, 0,
                           and_sub_array_max(0, bv_src_and, bv_src_sub),
                           Max2(rt.top_blocks, rt2.top_blocks),
                           bv_src_and, bv_src_sub, FALSE),
              LAMBDA st : [Outcome(st.tgt, st.ar, "none", st.ret, 0)
                              EXCEPT !.seen = st.seen])))

\* aggregator::combine_and_sub(bv_target, bv_src_and, .., bv_src_sub, .., any)
combine_and_sub(bv_tgt, bv_src_and, bv_src_sub, any, a) ==
    IF BM_ASSERT_THROW(Len(bv_src_and) < max_aggregator_cap)
         \/ BM_ASSERT_THROW(Len(bv_src_sub) < max_aggregator_cap)
    THEN Outcome(bv_tgt, a, "range", FALSE, 0)
    ELSE IF Len(bv_src_and) = 0
    THEN Outcome(bv_clear(bv_tgt), a, "none", FALSE, 0)
    ELSE With(resize_target(bv_tgt, bv_src_and, TRUE), LAMBDA rt :
         With(resize_target(rt.tgt, bv_src_sub, FALSE), LAMBDA rt2 :
         With(and_sub_scan([tgt |-> rt2.tgt, ar |-> a, ret |-> FALSE,
                            seen |-> <<>>], 0, 0,
                           and_sub_array_max(0, bv_src_and, bv_src_sub),
                           Max2(rt.top_blocks, rt2.top_blocks),
                           bv_src_and, bv_src_sub, any),
              LAMBDA st : [Outcome(st.tgt, st.ar, "none", st.ret, 0)
                              EXCEPT !.seen = st.seen])))

\* variant: the sub-directory stride is left out of the base index
first_idx_norow(i, j, pos) ==
    LET base1 == (i * gap_max_bits) % id_modulus
        base2 == (base1 + j * gap_max_bits) % id_modulus
    IN  (pos + base2) % id_modulus

\* the absolute index find_first_and_sub computes, in bm::id_t arithmetic
first_idx(i, j, pos) ==
    LET base1 == (i * set_array_size * gap_max_bits) % id_modulus
        base2 == (base1 + j * gap_max_bits) % id_modulus
    IN  (pos + base2) % id_modulus

\* the block loops of find_first_and_sub: st = [ar, ret, idx]
RECURSIVE find_first_scan(_, _, _, _, _, _, _)
find_first_scan(st, i, j, set_array_max, top_blocks, bv_src_and, bv_src_sub) ==
    IF i >= top_blocks THEN st
    ELSE With(combine_and_sub_ij(st.ar, i, j, bv_src_and, bv_src_sub), LAMBDA r :
         With(Append(st.seen, <<i, j>>), LAMBDA seen :
         IF r.digest # {}
         THEN [ar |-> r.ar, ret |-> TRUE,
               idx |-> first_idx(i, j, bit_find_first(r.ar.tb1)),
               seen |-> seen]
         ELSE IF j + 1 < set_array_max
         THEN find_first_scan([st EXCEPT !.ar = r.ar, !.seen = seen], i, j + 1,
                              set_array_max, top_blocks, bv_src_and, bv_src_sub)
         ELSE IF i + 1 < top_blocks
         THEN find_first_scan([st EXCEPT !.ar = r.ar, !.seen = seen], i + 1, 0,
                              and_sub_array_max(i + 1, bv_src_and, bv_src_sub),
                              top_blocks, bv_src_and, bv_src_sub)
         ELSE [st EXCEPT !.ar = r.ar, !.seen = seen]))

\* aggregator::find_first_and_sub(idx, bv_src_and, .., bv_src_sub, ..);
\* idx0 is what the caller's idx held before
find_first_and_sub(idx0, bv_src_and, bv_src_sub, bv_tgt, a) ==
    IF BM_ASSERT_THROW(Len(bv_src_and) < max_aggregator_cap)
         \/ BM_ASSERT_THROW(Len(bv_src_sub) < max_aggregator_cap)
    THEN Outcome(bv_tgt, a, "range", FALSE, idx0)
    ELSE IF Len(bv_src_and) = 0
    THEN Outcome(bv_tgt, a, "none", FALSE, idx0)
    ELSE With(resize_target(NewBv(id_max), bv_src_and, TRUE), LAMBDA rt :
         With(resize_target(rt.tgt, bv_src_sub, FALSE), LAMBDA rt2 :
         With(find_first_scan([ar |-> a, ret |-> FALSE, idx |-> idx0,
                               seen |-> <<>>], 0, 0,
                              and_sub_array_max(0, bv_src_and, bv_src_sub),
                              Max2(rt.top_blocks, rt2.top_blocks),
                              bv_src_and, bv_src_sub),
              LAMBDA st : [Outcome(bv_tgt, st.ar, "none", st.ret, st.idx)
                              EXCEPT !.seen = st.seen])))

-----------------------------------------------------------------------------
(* combine_shift_right_and *)

\* blocks_manager::check_allocate_block(nblock, 0, 0, &block_type, false):
\* the slot holds a block afterwards (a zeroed plain block if it was null)
check_allocate_block(bv, nblock) ==
    LET i == nblock \div set_array_size
        j == nblock % set_array_size
        old == IF i \in bv.rows /\ bv.init THEN bv.blk[nblock] ELSE NullBlk
    IN  PutBlock(bv, i, j, IF IS_NULL(old) THEN BitBlk({}) ELSE old)

\* one source k >= 1 of the per-block step: s = [tb1, acc, co] with co the
\* carry_overs_ array; the result has the same shape
shift_and_arg(s, k, arg_blk) ==
    LET carry_over == s.co[k] IN
    IF ~s.acc /\ carry_over = 0 THEN s
    ELSE IF BM_IS_GAP(arg_blk)
    THEN LET r == bit_block_shift_r1_unr(s.tb1, carry_over)
             b1 == IF r.acc THEN gap_and_to_bitset(r.blk, arg_blk.b) ELSE r.blk
         IN  [tb1 |-> b1,
              acc |-> IF r.acc THEN ~bit_is_all_zero(b1) ELSE FALSE,
              co |-> [s.co EXCEPT ![k] = r.co]]
    ELSE IF ~IS_NULL(arg_blk)
    THEN LET r == IF IS_FULL_BLOCK(arg_blk)
                  THEN bit_block_shift_r1_unr(s.tb1, carry_over)
                  ELSE bit_block_shift_r1_and_unr(s.tb1, arg_blk.b, carry_over)
         IN  [tb1 |-> r.blk, acc |-> r.acc, co |-> [s.co EXCEPT ![k] = r.co]]
    ELSE LET co == IF LastBit \in s.tb1 THEN 1 ELSE 0
             b0 == IF s.acc THEN {} ELSE s.tb1
             b1 == IF carry_over = 1 THEN b0 \cup {0} ELSE b0
         IN  [tb1 |-> b1, acc |-> (b1 \cap Word0) # {},
              co |-> [s.co EXCEPT ![k] = co]]

RECURSIVE shift_and_k(_, _, _, _, _)
shift_and_k(s, k, i, j, bv_src) ==
    IF k >= Len(bv_src) THEN s
    ELSE shift_and_k(shift_and_arg(s, k, get_block(bv_src[k + 1], i, j)),
                     k + 1, i, j, bv_src)

\* the scratch block taken from the first source
shift_and_first(a, arg_blk) ==
    IF BM_IS_GAP(arg_blk)
    THEN [tb1 |-> gap_and_to_bitset({}, arg_blk.b), acc |-> TRUE,
          co |-> [a.carry_overs EXCEPT ![0] = 0]]
    ELSE IF ~IS_NULL(arg_blk)
    THEN [tb1 |-> arg_blk.b, acc |-> TRUE,
          co |-> [a.carry_overs EXCEPT ![0] = 0]]
    ELSE [tb1 |-> {}, acc |-> FALSE, co |-> [a.carry_overs EXCEPT ![0] = 0]]

\* aggregator::combine_shift_right_and(i, j, ...): st = [tgt, ar];
\* the result adds found, the value returned
combine_shift_right_and_ij(st, i, j, bv_src) ==
    With(shift_and_k(shift_and_first(st.ar, get_block(bv_src[1], i, j)),
                     1, i, j, bv_src), LAMBDA s :
    With(IF s.acc /\ i * set_array_size + j = set_total_blocks - 1
         THEN s.tb1 \ {LastBit} ELSE s.tb1, LAMBDA blk :
    IF s.acc
    THEN [tgt |-> [check_allocate_block(st.tgt, i * set_array_size + j)
                       EXCEPT !.blk[i * set_array_size + j] = BitBlk(blk)],
          ar |-> [st.ar EXCEPT !.tb1 = blk, !.carry_overs = s.co],
          found |-> TRUE]
    ELSE [tgt |-> st.tgt,
          ar |-> [st.ar EXCEPT !.tb1 = blk, !.carry_overs = s.co],
          found |-> FALSE]))

\* aggregator::any_carry_overs
any_carry_overs(a, co_size) == \E x \in 0 .. (co_size - 1) : a.carry_overs[x] # 0

\* the block loops of combine_shift_right_and: st = [tgt, ar, ret, early]
RECURSIVE shift_and_scan(_, _, _, _, _, _)
shift_and_scan(st, i, j, top_blocks, bv_src, any) ==
    IF i >= set_array_size THEN st
    ELSE IF j = 0 /\ i > top_blocks /\ ~any_carry_overs(st.ar, Len(bv_src))
    THEN st
    ELSE With(combine_shift_right_and_ij(st, i, j, bv_src), LAMBDA r :
         IF r.found /\ any
         THEN [st EXCEPT !.tgt = r.tgt, !.ar = r.ar, !.ret = TRUE, !.early = TRUE]
         ELSE IF j + 1 < set_array_size
         THEN shift_and_scan([st EXCEPT !.tgt = r.tgt, !.ar = r.ar], i, j + 1,
                             top_blocks, bv_src, any)
         ELSE shift_and_scan([st EXCEPT !.tgt = r.tgt, !.ar = r.ar], i + 1, 0,
                             top_blocks, bv_src, any))

\* variant of combine_shift_right_and that returns at once on an empty
\* group, without clearing the target
combine_shift_right_and_keep(bv_tgt, bv_src, any, a) ==
    IF Len(bv_src) = 0
    THEN Outcome(bv_tgt, a, "none", FALSE, 0)
    ELSE With(resize_target(bv_tgt, bv_src, TRUE), LAMBDA rt :
         With(shift_and_scan([tgt |-> rt.tgt, ar |-> a, ret |-> FALSE,
                              early |-> FALSE],
                             0, 0, rt.top_blocks, bv_src, any), LAMBDA st :
              Outcome(st.tgt, st.ar, "none",
                      IF st.early THEN TRUE ELSE BvBits(st.tgt) # {}, 0)))

\* variant of combine_shift_right_and that does not reset the carry flags
combine_shift_right_and_stale(bv_tgt, bv_src, any, a) ==
    IF Len(bv_src) = 0
    THEN Outcome(bv_clear(bv_tgt), a, "none", FALSE, 0)
    ELSE With(resize_target(bv_tgt, bv_src, TRUE), LAMBDA rt :
         With(shift_and_scan([tgt |-> rt.tgt, ar |-> a, ret |-> FALSE,
                              early |-> FALSE],
                             0, 0, rt.top_blocks, bv_src, any), LAMBDA st :
              Outcome(st.tgt, st.ar, "none",
                      IF st.early THEN TRUE ELSE BvBits(st.tgt) # {}, 0)))

\* aggregator::combine_shift_right_and(bv_target, bv_src_and, .., any).
\* The guard at its head names src_size, which is no parameter of this
\* function: no check of src_and_size is made.
combine_shift_right_and(bv_tgt, bv_src, any, a) ==
    IF Len(bv_src) = 0
    THEN Outcome(bv_clear(bv_tgt), a, "none", FALSE, 0)
    ELSE With(resize_target(bv_tgt, bv_src, TRUE), LAMBDA rt :
         With(shift_and_scan([tgt |-> rt.tgt,
                              ar |-> [a EXCEPT !.carry_overs =
                                        [x \in CapIdx |->
                                           IF x < Len(bv_src) THEN 0
                                           ELSE a.carry_overs[x]]],
                              ret |-> FALSE, early |-> FALSE],
                             0, 0, rt.top_blocks, bv_src, any), LAMBDA st :
              Outcome(st.tgt, st.ar, "none",
                      IF st.early THEN TRUE ELSE BvBits(st.tgt) # {}, 0)))

-----------------------------------------------------------------------------
(* shift_right_and(bv_target, bv_mask) *)

\* blocks_manager::zero_block(nblock): the slot becomes null
zero_block(bv, nblock) == [bv EXCEPT !.blk[nblock] = NullBlk]

\* blocks_manager::deoptimize_block(nblock): GAP or uniform -> plain
deoptimize_block(bv, nblock) ==
    [bv EXCEPT !.blk[nblock] = BitBlk(bv.blk[nblock].b)]

\* What reads the language leaves undefined may yield: w0 is bit 0 of the
\* word read through a GAP-tagged pointer, oob the slot read one past the
\* end of a sub-directory of the mask (JunkBlk: the access faults)
Oracles == [w0 : BOOLEAN, oob : {NullBlk, FullBlk, BitBlk({1}), JunkBlk}]

\* slot (i, j) of the target as the row loop reads it from blk_blk[j]
TargetSlot(bv, n) == bv.blk[n]

\* the shift of one target block with the mask block ANDed in:
\* r = [blk, acc, co, null], null = the block pointer was reset to 0
sra_shift(bits, carry, arg_blk) ==
    IF BM_IS_GAP(arg_blk)
    THEN With(bit_block_shift_r1_unr(bits, carry), LAMBDA x :
         With(IF x.acc THEN gap_and_to_bitset(x.blk, arg_blk.b) ELSE x.blk,
              LAMBDA b1 :
              [blk |-> b1, co |-> x.co, null |-> FALSE,
               acc |-> IF x.acc THEN ~bit_is_all_zero(b1) ELSE FALSE]))
    ELSE IF ~IS_NULL(arg_blk)
    THEN With(IF IS_FULL_BLOCK(arg_blk)
              THEN bit_block_shift_r1_unr(bits, carry)
              ELSE bit_block_shift_r1_and_unr(bits, arg_blk.b, carry),
              LAMBDA x : [blk |-> x.blk, co |-> x.co, null |-> FALSE,
                          acc |-> x.acc])
    ELSE [blk |-> {}, co |-> IF LastBit \in bits THEN 1 ELSE 0,
          null |-> TRUE, acc |-> FALSE]

\* the end of the row loop body, r being the result of the shift:
\* the tail bit of the last block, the release of an empty block
sra_commit(st, t0, r, bslot, nblock) ==
    With([st EXCEPT
            !.tgt = IF r.null
                    THEN (IF nblock < set_total_blocks
                          THEN zero_block(t0, nblock) ELSE t0)
                    ELSE [t0 EXCEPT !.blk[bslot] = BitBlk(r.blk)],
            !.carry = r.co,
            !.any = st.any \/ r.acc,
            !.fault = st.fault \/ (r.null /\ ~(nblock < set_total_blocks))],
         LAMBDA st1 :
    IF nblock = set_total_blocks - 1
    THEN IF r.null
         THEN [st |-> [st1 EXCEPT !.fault = TRUE], brk |-> TRUE]
         ELSE [st |-> [st1 EXCEPT
                         !.tgt = IF ~r.acc THEN zero_block(st1.tgt, nblock)
                                 ELSE [st1.tgt EXCEPT !.blk[bslot] =
                                         BitBlk(r.blk \ {LastBit})],
                         !.carry = IF LastBit \in r.blk THEN 1 ELSE 0],
               brk |-> TRUE]
    ELSE IF ~r.acc /\ ~r.null
    THEN [st |-> [st1 EXCEPT
                    !.tgt = IF nblock < set_total_blocks
                            THEN zero_block(st1.tgt, nblock) ELSE st1.tgt,
                    !.fault = st1.fault \/ ~(nblock < set_total_blocks)],
          brk |-> FALSE]
    ELSE [st |-> st1, brk |-> FALSE])

\* the part of the row loop body after the block pointer is settled:
\* bslot is the slot `block` points to, nblock the block number in use,
\* arg_blk the mask block.  st = [tgt, carry, any, fault]; brk = the loop
\* was left by break
sra_body(st, bslot, nblock, arg_blk) ==
    IF IS_FULL_BLOCK(TargetSlot(st.tgt, bslot)) /\ st.carry = 1
         /\ IS_FULL_BLOCK(arg_blk)
    THEN [st |-> st, brk |-> FALSE]
    ELSE IF IS_FULL_BLOCK(TargetSlot(st.tgt, bslot)) /\ IS_NULL(arg_blk)
    THEN [st |-> [st EXCEPT !.tgt = zero_block(st.tgt, nblock), !.carry = 1],
          brk |-> FALSE]
    ELSE With(IF BM_IS_GAP(TargetSlot(st.tgt, bslot))
                   \/ IS_FULL_BLOCK(TargetSlot(st.tgt, bslot))
              THEN deoptimize_block(st.tgt, nblock) ELSE st.tgt, LAMBDA t0 :
         sra_commit(st, t0, sra_shift(t0.blk[bslot].b, st.carry, arg_blk),
                    bslot, nblock))

\* the do-while loop over the sub-directory of row i, entered at column j
RECURSIVE sra_row(_, _, _, _, _)
RECURSIVE sra_next(_, _, _, _, _)
RECURSIVE sra_null_block(_, _, _, _, _, _)
sra_row(st, i, j, bv_mask, orc) ==
    IF st.fault THEN st
    ELSE IF IS_NULL(TargetSlot(st.tgt, i * set_array_size + j))
    THEN sra_null_block(st, i, j, bv_mask, orc,
                        st.carry = 1 /\ ~IS_NULL(get_block(bv_mask, i, j))
                            /\ 0 \in get_block(bv_mask, i, j).b)
    ELSE sra_next(sra_body(st, i * set_array_size + j, i * set_array_size + j,
                           get_block(bv_mask, i, j)),
                  i, j, bv_mask, orc)

\* `while (++j < set_array_size)` after the body ran at column j
sra_next(b, i, j, bv_mask, orc) ==
    IF b.brk \/ j + 1 >= set_array_size THEN b.st
    ELSE sra_row(b.st, i, j + 1, bv_mask, orc)

\* the target block at (i, j) is null: w0 = the carry lands on bit 0 of a
\* block allocated for it; then the scan for the next block of the row
sra_null_block(st, i, j, bv_mask, orc, w0) ==
    With([st EXCEPT
            !.tgt = IF w0
                    THEN [check_allocate_block(st.tgt, i * set_array_size + j)
                            EXCEPT !.blk[i * set_array_size + j] = BitBlk({0})]
                    ELSE st.tgt,
            !.any = st.any \/ w0,
            !.carry = 0], LAMBDA st1 :
    With({x \in (j + 1) .. (set_array_size - 1) :
            ~IS_NULL(TargetSlot(st1.tgt, i * set_array_size + x))}, LAMBDA nxt :
    IF nxt # {}
    THEN With(CHOOSE x \in nxt : \A y \in nxt : x <= y, LAMBDA j2 :
              sra_next(sra_body(st1, i * set_array_size + j2,
                                i * set_array_size + j2,
                                get_block(bv_mask, i, j2)),
                       i, j2, bv_mask, orc))
    ELSE IF w0 /\ j + 1 >= set_array_size
    THEN \* the scan loop made no step: block still points to the block
         \* just allocated, j is one past the end of the sub-directory
         IF orc.oob = JunkBlk THEN [st1 EXCEPT !.fault = TRUE]
         ELSE sra_body(st1, i * set_array_size + j, i * set_array_size + j + 1,
                       orc.oob).st
    ELSE st1))

\* a carry enters row i, which has no sub-directory in the target
sra_missing_row(st, i, bv_mask, orc) ==
    IF st.carry = 0 THEN st
    ELSE With(get_block_ptr(bv_mask, i, 0), LAMBDA arg_blk :
         With(IF IS_NULL(arg_blk) THEN FALSE
              ELSE IF BM_IS_GAP(arg_blk) THEN orc.w0
              ELSE 0 \in arg_blk.b, LAMBDA w0 :
         [st EXCEPT !.tgt = IF w0
                            THEN [check_allocate_block(st.tgt, i * set_array_size)
                                    EXCEPT !.blk[i * set_array_size] = BitBlk({0})]
                            ELSE st.tgt,
                    !.any = st.any \/ w0,
                    !.carry = 0]))

RECURSIVE sra_rows(_, _, _, _)
sra_rows(st, i, bv_mask, orc) ==
    IF i >= set_array_size \/ st.fault THEN st
    ELSE IF i >= st.tgt.top_size /\ st.carry = 0 THEN st
    ELSE IF i >= st.tgt.top_size \/ i \notin st.tgt.rows
    THEN sra_rows(sra_missing_row(st, i, bv_mask, orc), i + 1, bv_mask, orc)
    ELSE sra_rows(sra_row(st, i, 0, bv_mask, orc), i + 1, bv_mask, orc)

\* aggregator::shift_right_and(bv_target, bv_mask)
shift_right_and(bv_tgt, bv_mask, orc, a) ==
    IF ~bv_mask.init
    THEN Outcome(bv_clear(bv_tgt), a, "none", FALSE, 0)
    ELSE IF ~bv_tgt.init
    THEN Outcome(bv_tgt, a, "none", FALSE, 0)
    ELSE With(sra_rows([tgt |-> IF bv_tgt.size < id_max
                                THEN [bv_tgt EXCEPT !.size = bv_tgt.size + 1]
                                ELSE bv_tgt,
                        carry |-> 0, any |-> FALSE, fault |-> FALSE],
                       0, bv_mask, orc), LAMBDA st :
         Outcome(st.tgt, a, IF st.fault THEN "fault" ELSE "none", st.any, 0))

-----------------------------------------------------------------------------
(* add, reset *)

\* a bvector_type pointer handed to add
NullPtr == [null |-> TRUE, bv |-> NewBv(0)]
PtrTo(bv) == [null |-> FALSE, bv |-> bv]

\* variant of add without the capacity checks
add_unchecked(g0, g1, ptr, agr_group) ==
    IF BM_ASSERT_THROW(agr_group <= 1)
    THEN [g0 |-> g0, g1 |-> g1, err |-> "range", ret |-> 0]
    ELSE IF ptr.null
    THEN [g0 |-> g0, g1 |-> g1, err |-> "none",
          ret |-> IF agr_group # 0 THEN Len(g1) ELSE Len(g0)]
    ELSE IF agr_group # 0
    THEN [g0 |-> g0, g1 |-> Append(g1, ptr.bv), err |-> "none",
          ret |-> Len(g1) + 1]
    ELSE [g0 |-> Append(g0, ptr.bv), g1 |-> g1, err |-> "none",
          ret |-> Len(g0) + 1]

\* variant of add that stores a null pointer like any other
add_null_stored(g0, g1, ptr, agr_group) ==
    IF BM_ASSERT_THROW(agr_group <= 1)
    THEN [g0 |-> g0, g1 |-> g1, err |-> "range", ret |-> 0]
    ELSE IF agr_group # 0
    THEN IF BM_ASSERT_THROW(Len(g1) < max_aggregator_cap)
         THEN [g0 |-> g0, g1 |-> g1, err |-> "range", ret |-> 0]
         ELSE [g0 |-> g0, g1 |-> Append(g1, ptr.bv), err |-> "none",
               ret |-> Len(g1) + 1]
    ELSE IF BM_ASSERT_THROW(Len(g0) < max_aggregator_cap)
         THEN [g0 |-> g0, g1 |-> g1, err |-> "range", ret |-> 0]
         ELSE [g0 |-> Append(g0, ptr.bv), g1 |-> g1, err |-> "none",
               ret |-> Len(g0) + 1]

\* aggregator::add(bv, agr_group): g0, g1 are the groups with their sizes;
\* ret is the value returned
add(g0, g1, ptr, agr_group) ==
    IF BM_ASSERT_THROW(agr_group <= 1)
    THEN [g0 |-> g0, g1 |-> g1, err |-> "range", ret |-> 0]
    ELSE IF agr_group # 0
    THEN IF BM_ASSERT_THROW(Len(g1) < max_aggregator_cap)
         THEN [g0 |-> g0, g1 |-> g1, err |-> "range", ret |-> 0]
         ELSE IF ptr.null
         THEN [g0 |-> g0, g1 |-> g1, err |-> "none", ret |-> Len(g1)]
         ELSE [g0 |-> g0, g1 |-> Append(g1, ptr.bv), err |-> "none",
               ret |-> Len(g1) + 1]
    ELSE IF BM_ASSERT_THROW(Len(g0) < max_aggregator_cap)
         THEN [g0 |-> g0, g1 |-> g1, err |-> "range", ret |-> 0]
         ELSE IF ptr.null
         THEN [g0 |-> g0, g1 |-> g1, err |-> "none", ret |-> Len(g0)]
         ELSE [g0 |-> Append(g0, ptr.bv), g1 |-> g1, err |-> "none",
               ret |-> Len(g0) + 1]

\* aggregator::reset()
reset(g0, g1) == [g0 |-> <<>>, g1 |-> <<>>]

-----------------------------------------------------------------------------
(* Inputs *)

\* most calls made on one aggregator in a behaviour
MaxCalls == 2
\* most sources in a list of mixed block representations
MaxSrcMix == 3
\* most sources in a list of plain blocks (the unrolled folds)
MaxSrcFold == 7

AllBlocks == 0 .. (set_total_blocks - 1)
TopBit == gap_max_bits - 1

\* a vector with the given slots (f: block number -> block), others null
BvOf(f, top) ==
    [init |-> TRUE, top_size |-> top, size |-> id_max,
     rows |-> {n \div set_array_size : n \in {m \in DOMAIN f : ~IS_NULL(f[m])}},
     blk |-> [n \in AllBlocks |-> IF n \in DOMAIN f THEN f[n] ELSE NullBlk],
     log |-> <<>>]

\* bit id_max is no valid index: no vector has it set
Valid(bv) == TopBit \notin bv.blk[set_total_blocks - 1].b
ValidList(l) == \A k \in 1 .. Len(l) : Valid(l[k])

\* the least top-directory size that holds block n
MinTop(n) == (n \div set_array_size) + 1

\* block values the inputs are drawn from
PalBlocks ==
    {NullBlk, FullBlk, BitBlk({}), BitBlk({0, 1}), BitBlk({1, 2}),
     BitBlk({TopBit - 1, TopBit}), BitBlk(Bits), GapBlk({0, 1}),
     GapBlk({TopBit - 1, TopBit}), GapBlk({0, TopBit})}

FoldBlocks == {BitBlk({}), BitBlk({0, 1}), BitBlk(Bits \ {0, 1})}
SparseBlocks == {BitBlk({0}), GapBlk({TopBit})}

\* lists of 1..n vectors that differ in one shared block p
RECURSIVE MixLists(_, _)
MixLists(p, n) ==
    IF n = 0 THEN {<<>>}
    ELSE LET shorter == MixLists(p, n - 1) IN
         shorter \cup
         {Append(l, BvOf(p :> x, set_array_size)) :
              l \in {m \in shorter : Len(m) = n - 1}, x \in PalBlocks}

RECURSIVE FoldLists(_)
FoldLists(n) ==
    IF n = 0 THEN {<<>>}
    ELSE LET shorter == FoldLists(n - 1) IN
         shorter \cup
         {Append(l, BvOf(0 :> x, set_array_size)) :
              l \in {m \in shorter : Len(m) = n - 1}, x \in FoldBlocks}

\* two vectors with one block each, anywhere, in directories of least size
SparsePairs ==
    {<<BvOf(p :> x, MinTop(p)), BvOf(q :> y, MinTop(q))>> :
         p \in AllBlocks, q \in AllBlocks, x \in SparseBlocks, y \in SparseBlocks}

MixPositions == {0, set_array_size + 2, set_total_blocks - 1}

SrcLists ==
    {l \in UNION {MixLists(p, 2) : p \in AllBlocks}
              \cup UNION {MixLists(p, MaxSrcMix) : p \in MixPositions}
              \cup FoldLists(MaxSrcFold)
              \cup SparsePairs : ValidList(l)}

\* what the target and the scratch block hold before the first call
Priors ==
    {[tgt |-> NewBv(id_max), tb1 |-> {}],
     [tgt |-> init_tree(NewBv(id_max)), tb1 |-> Bits],
     [tgt |-> BvOf((1 :> FullBlk) @@ (set_array_size + 1 :> GapBlk({1}))
                     @@ (set_total_blocks - 1 :> BitBlk({0})), set_array_size),
      tb1 |-> {0}],
     [tgt |-> [BvOf(0 :> BitBlk({TopBit}), 1) EXCEPT !.size = gap_max_bits],
      tb1 |-> Bits]}

\* lists of exactly n vectors that differ in one shared block p
MixListsOf(p, n) == {l \in MixLists(p, n) : Len(l) = n}

RichBlocks == {BitBlk({1, 2}), FullBlk, GapBlk({0, TopBit})}
SubBlocks == {NullBlk, BitBlk({1, 2}), BitBlk({2}), FullBlk}

\* group0/group1 pairs for AND-SUB and find-first
AndSubFamilies ==
    UNION {(MixListsOf(p, 1) \cup MixListsOf(p, 2))
              \X (MixListsOf(p, 0) \cup MixListsOf(p, 1)) : p \in MixPositions}
      \cup UNION {(MixListsOf(p, 0) \cup MixListsOf(p, 1)) \X MixListsOf(p, 2) :
                     p \in MixPositions}
      \cup {<<(<<BvOf((t[1] :> x) @@ (t[2] :> y), MinTop(t[2]))>>),
              (<<BvOf(t[3] :> z, MinTop(t[3]))>>)>> :
                t \in {u \in AllBlocks \X AllBlocks \X AllBlocks :
                           u[1] < u[2] /\ u[3] \in {u[1], u[2]}},
                x \in RichBlocks, y \in RichBlocks, z \in SubBlocks}

AndSubInputs == {g \in AndSubFamilies : ValidList(g[1]) /\ ValidList(g[2])}

SubPriors == {pr \in Priors : pr.tb1 # {}}

\* sources of combine_shift_right_and: two neighbouring blocks, in one row,
\* across a row boundary, and at the end of the address space
ShiftBlocks ==
    {NullBlk, FullBlk, BitBlk({0, TopBit}), GapBlk({0, TopBit}),
     BitBlk({1, TopBit})}
ShiftFewBlocks == {NullBlk, BitBlk({0, TopBit}), GapBlk({TopBit})}
ShiftPositions == {0, set_array_size - 1, set_total_blocks - 2}
ShiftVecs(p, pal) ==
    {v \in {BvOf((p :> x) @@ (p + 1 :> y), MinTop(p + 1)) : x \in pal, y \in pal} :
        Valid(v)}
ShiftLists ==
    UNION {{<<a>> : a \in ShiftVecs(p, ShiftBlocks)}
             \cup {<<a, b>> : a \in ShiftVecs(p, ShiftBlocks),
                              b \in ShiftVecs(p, ShiftBlocks)} :
                p \in ShiftPositions}
      \cup {<<a, b, c>> : a \in ShiftVecs(set_array_size - 1, ShiftFewBlocks),
                          b \in ShiftVecs(set_array_size - 1, ShiftFewBlocks),
                          c \in ShiftVecs(set_array_size - 1, ShiftFewBlocks)}
ShiftPriors == {pr \in Priors : pr.tb1 \in {{}, {0}}}

\* targets and masks of shift_right_and: two blocks of any representation
SraTargetBlocks ==
    {NullBlk, FullBlk, BitBlk({0, TopBit}), GapBlk({TopBit}), BitBlk({1})}
SraMaskBlocks ==
    {NullBlk, FullBlk, BitBlk({0}), GapBlk({0, 1}), BitBlk({0, 1, TopBit})}
SraPairs ==
    {<<0, 1>>, <<set_array_size - 2, set_array_size - 1>>,
     <<set_array_size - 1, set_array_size>>,
     <<set_array_size - 1, set_array_size + 1>>,
     <<set_total_blocks - 2, set_total_blocks - 1>>}
\* the least top-directory size that holds the blocks of f
TopOf(f) ==
    LET tops == {MinTop(n) : n \in {m \in DOMAIN f : ~IS_NULL(f[m])}}
    IN  IF tops = {} THEN 1 ELSE CHOOSE t \in tops : \A u \in tops : u <= t
SraVecs(pal) ==
    {v \in UNION {{BvOf((q[1] :> x) @@ (q[2] :> y),
                        TopOf((q[1] :> x) @@ (q[2] :> y))),
                   BvOf((q[1] :> x) @@ (q[2] :> y), set_array_size)} :
                     q \in SraPairs, x \in pal, y \in pal} : Valid(v)}
SraTargets == SraVecs(SraTargetBlocks) \cup {NewBv(id_max)}
SraMasks == SraVecs(SraMaskBlocks) \cup {NewBv(id_max)}

\* the vectors an application attaches in the life of one aggregator
PoolBv ==
    BvOf((0 :> BitBlk({0, TopBit})) @@ (1 :> FullBlk)
           @@ (set_array_size + 1 :> GapBlk({1})), set_array_size)
Pool == {NullPtr, PtrTo(PoolBv)}
Groups == 0 .. 2
LifePriors == {pr \in Priors : pr.tb1 = {0} \/ ~pr.tgt.init}

\* what a sorter call returned: the pointer, the counts, the coordinate
NoSort == [blk |-> "null", cnt |-> 0, gcnt |-> 0, read |-> 0, nb |-> 0]

NoCall(n) ==
    [op |-> "none", n |-> n, err |-> "none", ret |-> FALSE, idx |-> 0,
     any |-> FALSE, pre |-> NewBv(id_max), mask |-> NewBv(id_max), grp |-> 0,
     nul |-> FALSE, stale |-> FALSE, sort |-> NoSort, digest |-> {},
     folds |-> <<>>, jmax |-> 0, seen |-> <<>>]

Called(op, any, r) ==
    [op |-> op, n |-> call.n + 1, err |-> r.err, ret |-> r.ret, idx |-> r.idx,
     any |-> any, pre |-> bv_target, mask |-> NewBv(id_max), grp |-> 0,
     nul |-> FALSE, stale |-> any_carry_overs(ar, max_aggregator_cap),
     sort |-> NoSort, digest |-> {}, folds |-> <<>>, jmax |-> 0,
     seen |-> r.seen]

-----------------------------------------------------------------------------
(* Operations *)

CombineOr ==
    /\ call.n < MaxCalls
    /\ \E r \in {combine_or(bv_target, arg_bv0, ar)} :
        /\ bv_target' = r.tgt
        /\ ar' = r.ar
        /\ call' = Called("combine_or", FALSE, r)
    /\ UNCHANGED <<arg_bv0, arg_bv1>>

InitOr ==
    /\ arg_bv0 \in SrcLists \ {<<>>}
    /\ arg_bv1 = <<>>
    /\ \E pr \in Priors : bv_target = pr.tgt /\ ar = NewArena(pr.tb1)
    /\ call = NoCall(MaxCalls - 1)

SpecOr == InitOr /\ [][CombineOr]_vars

CombineAnd ==
    /\ call.n < MaxCalls
    /\ \E r \in {combine_and(bv_target, arg_bv0, ar)} :
        /\ bv_target' = r.tgt
        /\ ar' = r.ar
        /\ call' = Called("combine_and", FALSE, r)
    /\ UNCHANGED <<arg_bv0, arg_bv1>>

CombineAndSub ==
    /\ call.n < MaxCalls
    /\ \E any \in BOOLEAN :
        \E r \in {combine_and_sub(bv_target, arg_bv0, arg_bv1, any, ar)} :
        /\ bv_target' = r.tgt
        /\ ar' = r.ar
        /\ call' = Called("combine_and_sub", any, r)
    /\ UNCHANGED <<arg_bv0, arg_bv1>>

FindFirstAndSub ==
    /\ call.n < MaxCalls
    /\ \E r \in {find_first_and_sub(call.idx, arg_bv0, arg_bv1, bv_target, ar)} :
        /\ ar' = r.ar
        /\ call' = Called("find_first_and_sub", FALSE, r)
    /\ UNCHANGED <<arg_bv0, arg_bv1, bv_target>>

InitAnd ==
    /\ arg_bv0 \in SrcLists \ {<<>>}
    /\ arg_bv1 = <<>>
    /\ \E pr \in Priors : bv_target = pr.tgt /\ ar = NewArena(pr.tb1)
    /\ call = NoCall(MaxCalls - 1)

SpecAnd == InitAnd /\ [][CombineAnd]_vars

InitAndSub ==
    /\ \E g \in AndSubInputs : arg_bv0 = g[1] /\ arg_bv1 = g[2]
    /\ \E pr \in SubPriors : bv_target = pr.tgt /\ ar = NewArena(pr.tb1)
    /\ call = NoCall(MaxCalls - 1)

NextAndSub == CombineAndSub \/ FindFirstAndSub

SpecAndSub == InitAndSub /\ [][NextAndSub]_vars

CombineShiftRightAnd ==
    /\ call.n < MaxCalls
    /\ \E any \in BOOLEAN :
        \E r \in {combine_shift_right_and(bv_target, arg_bv0, any, ar)} :
        /\ bv_target' = r.tgt
        /\ ar' = r.ar
        /\ call' = Called("combine_shift_right_and", any, r)
    /\ UNCHANGED <<arg_bv0, arg_bv1>>

InitShift ==
    /\ arg_bv0 \in ShiftLists
    /\ arg_bv1 = <<>>
    /\ \E pr \in ShiftPriors : bv_target = pr.tgt /\ ar = NewArena(pr.tb1)
    /\ call = NoCall(MaxCalls - 1)

SpecShift == InitShift /\ [][CombineShiftRightAnd]_vars

ShiftRightAnd ==
    /\ call.n < MaxCalls
    /\ \E bv_mask \in SraMasks, orc \in Oracles :
        \E r \in {shift_right_and(bv_target, bv_mask, orc, ar)} :
        /\ bv_target' = r.tgt
        /\ call' = [Called("shift_right_and", FALSE, r) EXCEPT !.mask = bv_mask]
    /\ UNCHANGED <<arg_bv0, arg_bv1, ar>>

InitSRA ==
    /\ arg_bv0 = <<>>
    /\ arg_bv1 = <<>>
    /\ bv_target \in SraTargets
    /\ ar = NewArena({})
    /\ call = NoCall(MaxCalls - 1)

SpecSRA == InitSRA /\ [][ShiftRightAnd]_vars

Add ==
    /\ \E ptr \in Pool, agr_group \in Groups :
        \E r \in {add(arg_bv0, arg_bv1, ptr, agr_group)} :
        /\ arg_bv0' = r.g0
        /\ arg_bv1' = r.g1
        /\ call' = [NoCall(call.n) EXCEPT !.op = "add", !.err = r.err,
                                          !.idx = r.ret, !.grp = agr_group,
                                          !.nul = ptr.null]
    /\ UNCHANGED <<ar, bv_target>>

Reset ==
    /\ LET r == reset(arg_bv0, arg_bv1) IN
        /\ arg_bv0' = r.g0
        /\ arg_bv1' = r.g1
    /\ call' = [NoCall(call.n) EXCEPT !.op = "reset"]
    /\ UNCHANGED <<ar, bv_target>>

Init ==
    /\ arg_bv0 = <<>>
    /\ arg_bv1 = <<>>
    /\ \E pr \in LifePriors : bv_target = pr.tgt /\ ar = NewArena(pr.tb1)
    /\ call = NoCall(MaxCalls - 1)

Next ==
    \/ Add
    \/ Reset
    \/ CombineOr
    \/ CombineAnd
    \/ CombineAndSub
    \/ FindFirstAndSub
    \/ CombineShiftRightAnd

Spec == Init /\ [][Next]_vars

\* one aggregator used for several reductions in a row, on groups that are
\* configured once
ReuseGroups0 ==
    {l \in {<<a, b>> : a \in ShiftVecs(set_array_size - 1, ShiftFewBlocks),
                       b \in ShiftVecs(set_array_size - 1, ShiftFewBlocks)}
            \cup MixListsOf(0, 2) : ValidList(l)}
ReuseGroups1 == {<<>>, <<BvOf(0 :> BitBlk({1, 2}), 1)>>}

InitReuse ==
    /\ arg_bv0 \in ReuseGroups0
    /\ arg_bv1 \in ReuseGroups1
    /\ bv_target = NewBv(id_max)
    /\ ar = NewArena(Bits)
    /\ call = NoCall(0)

NextReuse ==
    \/ CombineOr
    \/ CombineAnd
    \/ CombineAndSub
    \/ FindFirstAndSub
    \/ CombineShiftRightAnd

SpecReuse == InitReuse /\ [][NextReuse]_vars

\* the OR sorter on its own, at one coordinate of a list of sources
SortLists == UNION {MixLists(p, MaxSrcMix) : p \in MixPositions}

SortInputBlocksOr ==
    /\ call.n < MaxCalls
    /\ \E nb \in MixPositions :
        \E s \in {sort_input_blocks_or(ar, arg_bv0, nb \div set_array_size,
                                       nb % set_array_size)} :
        /\ ar' = s.ar
        /\ call' = [NoCall(call.n + 1) EXCEPT
                       !.op = "sort_input_blocks_or",
                       !.sort = [blk |-> s.blk, cnt |-> s.cnt, gcnt |-> s.gcnt,
                                 read |-> s.read, nb |-> nb]]
    /\ UNCHANGED <<arg_bv0, arg_bv1, bv_target>>

InitSort ==
    /\ arg_bv0 \in SortLists
    /\ arg_bv1 = <<>>
    /\ bv_target = NewBv(id_max)
    /\ ar = NewArena({})
    /\ call = NoCall(MaxCalls - 1)

SpecSort == InitSort /\ [][SortInputBlocksOr]_vars

\* sources and targets of different bit-lengths and directory sizes
SizeTops == {1, 2, set_array_size}
SizeLengths == {2, gap_max_bits, 2 * gap_max_bits, id_max}
SizeVecs ==
    {[BvOf(0 :> x, t) EXCEPT !.size = z] :
        x \in {BitBlk({0, 1}), GapBlk({1})}, t \in SizeTops,
        z \in SizeLengths \ {2 * gap_max_bits}}
SizeGroups0 == {<<a>> : a \in SizeVecs} \cup {<<a, b>> : a \in SizeVecs, b \in SizeVecs}
SizeGroups1 ==
    {<<>>} \cup {<<a>> : a \in {v \in SizeVecs : v.blk[0] = GapBlk({1})}}
SizeTargets ==
    {NewBv(id_max),
     [init |-> FALSE, top_size |-> 1, size |-> 2,
      rows |-> {}, blk |-> [n \in AllBlocks |-> NullBlk], log |-> <<>>],
     [BvOf(1 :> BitBlk({TopBit}), 1) EXCEPT !.size = 2 * gap_max_bits]}

InitSize ==
    /\ arg_bv0 \in SizeGroups0
    /\ arg_bv1 \in SizeGroups1
    /\ bv_target \in SizeTargets
    /\ ar = NewArena({})
    /\ call = NoCall(MaxCalls - 1)

NextSize ==
    \/ CombineOr
    \/ CombineAnd
    \/ CombineAndSub
    \/ CombineShiftRightAnd

SpecSize == InitSize /\ [][NextSize]_vars

-----------------------------------------------------------------------------
(* Claims *)

\* bit b is set in some vector of the list
HasBit(bv, b) == (b % gap_max_bits) \in bv.blk[b \div gap_max_bits].b
AnyHas(bv_src, b) == \E k \in 1 .. Len(bv_src) : HasBit(bv_src[k], b)
\* bit b is set in every vector of the list
AllHave(bv_src, b) == \A k \in 1 .. Len(bv_src) : HasBit(bv_src[k], b)
AllIds == 0 .. id_max
KindsAt(bv_src, n) == {bv_src[k].blk[n].k : k \in 1 .. Len(bv_src)}

\* C1: after combine_or on a non-empty list of fewer than max_aggregator_cap
\* vectors the target has bit b set iff at least one source has it, whatever
\* the target held before and however the source blocks are represented,
\* and the bits equal those of combine_or_horizontal.
C1_OrIsUnion ==
    call.op = "combine_or" =>
        /\ call.err = "none"
        /\ BvBits(bv_target) = {b \in AllIds : AnyHas(arg_bv0, b)}
        /\ BvBits(bv_target) = combine_or_horizontal(arg_bv0)

\* C1 witness: a GAP block and a plain block are folded at one coordinate
\* into a target that held other bits before the call
C1_Witness ==
    /\ call.op = "combine_or"
    /\ \E n \in AllBlocks : {"gap", "bit"} \subseteq KindsAt(arg_bv0, n)
                            /\ bv_target.blk[n].k = "bit"
    /\ BvBits(call.pre) \ BvBits(bv_target) # {}

\* C2: after combine_and on a non-empty list of fewer than
\* max_aggregator_cap vectors the target has bit b set iff every source has
\* it, for every mix of null, uniform, GAP and plain source blocks, and the
\* bits equal those of combine_and_horizontal.
C2_AndIsIntersection ==
    call.op = "combine_and" =>
        /\ call.err = "none"
        /\ BvBits(bv_target) = {b \in AllIds : AllHave(arg_bv0, b)}
        /\ BvBits(bv_target) = combine_and_horizontal(arg_bv0)

\* C2 witness: a uniform, a GAP and a plain block meet at one coordinate and
\* leave a non-empty block in a target that held other bits before
C2_Witness ==
    /\ call.op = "combine_and"
    /\ \E n \in AllBlocks : {"full", "gap", "bit"} \subseteq KindsAt(arg_bv0, n)
                            /\ bv_target.blk[n].b # {}
    /\ BvBits(call.pre) \ BvBits(bv_target) # {}

\* AND(group0) AND NOT OR(group1), bit by bit
AndSubBits ==
    {b \in AllIds : AllHave(arg_bv0, b) /\ ~AnyHas(arg_bv1, b)}
MinOf(s) == CHOOSE x \in s : \A y \in s : x <= y
BlockOfBit(b) == b \div gap_max_bits

C4_AndSubAnyFirstBlock ==
    (call.op = "combine_and_sub" /\ call.any /\ Len(arg_bv0) > 0) =>
        /\ call.err = "none"
        /\ call.ret = (AndSubBits # {})
        /\ call.ret =>
             BvBits(bv_target) =
                {b \in AndSubBits : BlockOfBit(b) = BlockOfBit(MinOf(AndSubBits))}

\* C4 witness: the result has bits in a later block that the early return
\* leaves out of the target
C4_Witness ==
    /\ call.op = "combine_and_sub" /\ call.any /\ call.ret
    /\ AndSubBits \ BvBits(bv_target) # {}
    /\ BvBits(bv_target) # {}

AllHaveBelow(bv_src, b) == b >= 1 /\ AllHave(bv_src, b - 1)

\* C6 as stated: after combine_shift_right_and over a non-empty list the
\* target has bit b set iff every source has bit b - 1 set, the shift being
\* carried across block and row boundaries, and the highest addressable bit
\* of the target is 0.
C6_Original ==
    (call.op = "combine_shift_right_and" /\ ~call.any /\ Len(arg_bv0) > 0) =>
        /\ call.err = "none"
        /\ BvBits(bv_target) = {b \in AllIds : AllHaveBelow(arg_bv0, b)}
        /\ id_max \notin BvBits(bv_target)

\* the bits shift_right_and is to leave: b >= 1, b - 1 in the target before
\* the call, b in the mask
SraBits == {b \in AllIds : b >= 1 /\ HasBit(call.pre, b - 1) /\ HasBit(call.mask, b)}

\* C7 as stated: shift_right_and on an initialised target and an initialised
\* mask, whatever the representation of their blocks, leaves bit b set iff
\* b >= 1, bit b - 1 was set in the target before and bit b is set in the
\* mask, the carry entering the next block in row-major order.
C7_Original ==
    (call.op = "shift_right_and" /\ call.pre.init /\ call.mask.init) =>
        /\ call.err = "none"
        /\ BvBits(bv_target) = SraBits

\* C8 as stated: a shift_right_and that returns, returns true iff the
\* target has a set bit afterwards.
C8_Original ==
    (call.op = "shift_right_and" /\ call.pre.init /\ call.mask.init
        /\ call.err = "none") =>
        call.ret = (BvBits(bv_target) # {})

Reductions ==
    {"combine_or", "combine_and", "combine_and_sub", "combine_shift_right_and"}

\* C9 as stated: every reduction called with an empty group0 leaves the
\* target without set bits and, where it returns a bool, returns false,
\* for any group1; find_first_and_sub returns false.
C9_Original ==
    /\ (call.op \in Reductions /\ Len(arg_bv0) = 0) =>
          /\ call.err = "none"
          /\ BvBits(bv_target) = {}
          /\ ~call.ret
    /\ (call.op = "find_first_and_sub" /\ Len(arg_bv0) = 0) =>
          /\ call.err = "none"
          /\ ~call.ret

\* C9 (amended): with an empty group0 and a group1 of fewer than
\* max_aggregator_cap vectors every reduction leaves the target without set
\* bits and returns false, and find_first_and_sub returns false; with a
\* group1 of max_aggregator_cap vectors combine_and_sub and
\* find_first_and_sub fail with a range error and the target is as before.
C9_EmptyGroupClears ==
    /\ (call.op \in Reductions /\ Len(arg_bv0) = 0
           /\ (call.op = "combine_and_sub" => Len(arg_bv1) < max_aggregator_cap)) =>
          /\ call.err = "none"
          /\ BvBits(bv_target) = {}
          /\ ~call.ret
    /\ (call.op = "find_first_and_sub" /\ Len(arg_bv0) = 0
           /\ Len(arg_bv1) < max_aggregator_cap) =>
          /\ call.err = "none"
          /\ ~call.ret
    /\ (call.op \in {"combine_and_sub", "find_first_and_sub"}
           /\ Len(arg_bv0) = 0 /\ Len(arg_bv1) = max_aggregator_cap) =>
          /\ call.err = "range"
          /\ bv_target = call.pre

\* C9 witness: combine_and_sub with an empty group0 and a non-empty group1
\* wiped a target that held bits
C9_Witness ==
    /\ call.op = "combine_and_sub" /\ call.err = "none"
    /\ Len(arg_bv0) = 0 /\ Len(arg_bv1) > 0
    /\ BvBits(call.pre) # {}
    /\ BvBits(bv_target) = {}

\* C10: in every step both group sizes stay <= max_aggregator_cap; an add
\* to a group that holds max_aggregator_cap vectors fails with a range error
\* and leaves both groups as they were, and so does an add with a group
\* index above 1.
C10_GroupsBounded ==
    [][/\ Len(arg_bv0') <= max_aggregator_cap
       /\ Len(arg_bv1') <= max_aggregator_cap
       /\ (call'.op = "add" /\ call'.grp > 1) =>
             (call'.err = "range" /\ UNCHANGED <<arg_bv0, arg_bv1>>)
       /\ (call'.op = "add" /\ call'.grp = 0
              /\ Len(arg_bv0) = max_aggregator_cap) =>
             (call'.err = "range" /\ UNCHANGED <<arg_bv0, arg_bv1>>)
       /\ (call'.op = "add" /\ call'.grp = 1
              /\ Len(arg_bv1) = max_aggregator_cap) =>
             (call'.err = "range" /\ UNCHANGED <<arg_bv0, arg_bv1>>)]_vars

\* C10 witness: an add to group 1, which holds max_aggregator_cap vectors,
\* has failed with a range error
C10_Witness ==
    /\ call.op = "add" /\ call.err = "range" /\ call.grp = 1
    /\ Len(arg_bv1) = max_aggregator_cap

\* the group an add call named, before and after the call
GroupOf(g, g0, g1) == IF g # 0 THEN g1 ELSE g0

\* C11 as stated: an add with a null pointer never fails and leaves both
\* groups as they were, for every size of the chosen group from 0 up to and
\* including max_aggregator_cap.
C11_Original ==
    [][(call'.op = "add" /\ call'.nul /\ call'.grp <= 1) =>
          (call'.err = "none" /\ UNCHANGED <<arg_bv0, arg_bv1>>)]_vars

\* C11 (amended): an add with a null pointer leaves both groups as they
\* were; it succeeds when the chosen group holds fewer than
\* max_aggregator_cap vectors and fails with a range error when the group
\* holds max_aggregator_cap vectors.
C11_NullIgnored ==
    [][(call'.op = "add" /\ call'.nul /\ call'.grp <= 1) =>
          /\ UNCHANGED <<arg_bv0, arg_bv1>>
          /\ Len(GroupOf(call'.grp, arg_bv0, arg_bv1)) < max_aggregator_cap
                => call'.err = "none"
          /\ Len(GroupOf(call'.grp, arg_bv0, arg_bv1)) = max_aggregator_cap
                => call'.err = "range"]_vars

\* C11 witness: a null pointer was handed to add for group 0, which holds
\* max_aggregator_cap - 1 vectors, and the call succeeded
C11_Witness ==
    /\ call.op = "add" /\ call.nul /\ call.grp = 0 /\ call.err = "none"
    /\ Len(arg_bv0) = max_aggregator_cap - 1

\* C12 as stated: an add that appends returns the size of the group after
\* the call, the vector being its last element and the other group as it
\* was; an add of a null pointer returns 0, whatever the size of the group.
C12_Original ==
    [][(call'.op = "add" /\ call'.err = "none") =>
          /\ call'.nul => call'.idx = 0
          /\ ~call'.nul =>
                /\ call'.idx = Len(GroupOf(call'.grp, arg_bv0', arg_bv1'))
                /\ call'.idx = Len(GroupOf(call'.grp, arg_bv0, arg_bv1)) + 1
                /\ GroupOf(call'.grp, arg_bv0', arg_bv1') =
                      Append(GroupOf(call'.grp, arg_bv0, arg_bv1), PoolBv)
                /\ GroupOf(1 - call'.grp, arg_bv0', arg_bv1') =
                      GroupOf(1 - call'.grp, arg_bv0, arg_bv1)]_vars

ReductionOps == Reductions \cup {"find_first_and_sub"}

\* what the scratch block of a freshly constructed aggregator may hold
FreshScratch == {{}, Bits, {1}}

\* the call op made with the given target, groups, arena and caller's idx
ReductionOutcome(op, any, tgt, g0, g1, a, idx0) ==
    CASE op = "combine_or" -> combine_or(tgt, g0, a)
      [] op = "combine_and" -> combine_and(tgt, g0, a)
      [] op = "combine_and_sub" -> combine_and_sub(tgt, g0, g1, any, a)
      [] op = "find_first_and_sub" -> find_first_and_sub(idx0, g0, g1, tgt, a)
      [] op = "combine_shift_right_and" -> combine_shift_right_and(tgt, g0, any, a)

\* C13: every combine_* and find_first_and_sub call leaves both groups as
\* they were, and its error, target bits, return value and idx equal those
\* of the same call made with a freshly constructed arena, whatever the
\* scratch block, the bucket arrays and the carry flags held from earlier
\* calls (calls that returned early with any = true included).
C13_NoStateBetweenCalls ==
    [][call'.op \in ReductionOps =>
          /\ UNCHANGED <<arg_bv0, arg_bv1>>
          /\ \A junk \in FreshScratch :
                \E f \in {ReductionOutcome(call'.op, call'.any, bv_target, arg_bv0,
                                           arg_bv1, NewArena(junk), call.idx)} :
                   /\ f.err = call'.err
                   /\ BvBits(f.tgt) = BvBits(bv_target')
                   /\ f.ret = call'.ret
                   /\ f.idx = call'.idx]_vars

\* C13 witness: a combine_shift_right_and over two sources found bits on an
\* arena whose carry flags an earlier call had left set
C13_Witness ==
    /\ call.op = "combine_shift_right_and" /\ call.stale /\ call.n >= 2
    /\ Len(arg_bv0) >= 2 /\ call.ret /\ BvBits(bv_target) # {}

MaxOf(s) == CHOOSE x \in s : \A y \in s : y <= x
\* the vectors a call reads: group 1 as well for combine_and_sub
SourcesOf(op) ==
    {arg_bv0[k] : k \in 1 .. Len(arg_bv0)}
      \cup (IF op = "combine_and_sub"
            THEN {arg_bv1[k] : k \in 1 .. Len(arg_bv1)} ELSE {})

\* C14 as stated: after combine_or, combine_and, combine_and_sub or
\* combine_shift_right_and with a non-empty positive group the bit-length
\* of the target equals the greatest bit-length of the source vectors,
\* whatever bit-length the target had before, and the top-directory size of
\* the target is at least the greatest top-block count of the sources.
C14_Original ==
    (call.op \in Reductions /\ Len(arg_bv0) > 0 /\ call.err = "none") =>
        /\ bv_target.size = MaxOf({v.size : v \in SourcesOf(call.op)})
        /\ bv_target.top_size >= MaxOf({v.top_size : v \in SourcesOf(call.op)})

\* C14 (amended): after such a call the bit-length of the target equals the
\* greatest of the bit-length it had before the call and the bit-lengths of
\* the source vectors (never less than before), and the top-directory size
\* of the target is at least the greatest top-block count of the sources
\* and at least what it was before.
C14_SizeHarmonized ==
    (call.op \in Reductions /\ Len(arg_bv0) > 0 /\ call.err = "none") =>
        /\ bv_target.size =
              MaxOf({call.pre.size} \cup {v.size : v \in SourcesOf(call.op)})
        /\ bv_target.top_size >= MaxOf({v.top_size : v \in SourcesOf(call.op)})
        /\ bv_target.top_size >= call.pre.top_size

\* C14 witness: combine_and_sub made the target longer than it was, as long
\* as the longest source (a vector of group 1), and widened its directory
C14_Witness ==
    /\ call.op = "combine_and_sub" /\ call.err = "none"
    /\ Len(arg_bv0) > 0 /\ Len(arg_bv1) > 0
    /\ bv_target.size > call.pre.size
    /\ bv_target.size = arg_bv1[1].size
    /\ \A k \in 1 .. Len(arg_bv0) : arg_bv0[k].size < bv_target.size
    /\ bv_target.top_size > call.pre.top_size

\* the stores into the directory of the target during the last call
Commits == bv_target.log

\* C15: within one combine_or, combine_and, combine_and_sub or
\* combine_shift_right_and call the stores into the block directory of the
\* target are made at strictly increasing block numbers i * set_array_size
\* + j: no coordinate is stored twice and no store follows a store to a
\* later coordinate; every stored slot holds what the call stored there.
C15_RowMajorCommits ==
    (call.op \in Reductions /\ call.err = "none") =>
        /\ \A k \in 1 .. (Len(Commits) - 1) : Commits[k] < Commits[k + 1]
        /\ \A n \in AllBlocks :
              ~IS_NULL(bv_target.blk[n]) => \E k \in 1 .. Len(Commits) : Commits[k] = n

\* C15 witness: the second call on one arena, a combine_or, stored the last
\* block of row 0 and then the first block of row 1
C15_Witness ==
    /\ call.op = "combine_or" /\ call.n >= 2
    /\ Commits = <<set_array_size - 1, set_array_size>>

\* the last call was handed an argument array of max_aggregator_cap or more
\* vectors (the groups, for the overloads that take none)
OverCapacity ==
    \/ Len(arg_bv0) >= max_aggregator_cap
    \/ (call.op \in {"combine_and_sub", "find_first_and_sub"}
          /\ Len(arg_bv1) >= max_aggregator_cap)

\* C16 as stated: combine_or, combine_and, combine_and_sub,
\* find_first_and_sub and combine_shift_right_and, called with an argument
\* array of max_aggregator_cap or more vectors (a group filled to exactly
\* max_aggregator_cap by add included), fail with a capacity error and
\* leave the target as it was.
C16_Original ==
    (call.op \in ReductionOps /\ OverCapacity) =>
        (call.err = "range" /\ bv_target = call.pre)

\* the blocks of the sources at the coordinate the sorter was called for
SortedAt ==
    [k \in 1 .. Len(arg_bv0) |->
        get_block_ptr(arg_bv0[k], call.sort.nb \div set_array_size,
                      call.sort.nb % set_array_size)]
IsPlain(p) == p.k = "bit"
\* the first cnt entries of a bucket array, as a sequence
Bucket(v, cnt) == [x \in 1 .. cnt |-> v[x - 1]]
FirstFull == MinOf({k \in 1 .. Len(arg_bv0) : IS_FULL_BLOCK(SortedAt[k])})

\* C17: sort_input_blocks_or at a coordinate: if no source block is uniform
\* all-ones it returns null, the plain list holds the plain source blocks
\* and the GAP list the GAP source blocks, each in source order, and
\* the two counts add up to the number of non-null source blocks (at most
\* src_size); if some source block is uniform all-ones it returns the
\* FULL_BLOCK_FAKE_ADDR, both counts are 0 and no source after the first
\* uniform one was read.
C17_SorterBuckets ==
    call.op = "sort_input_blocks_or" =>
        IF \E k \in 1 .. Len(arg_bv0) : IS_FULL_BLOCK(SortedAt[k])
        THEN /\ call.sort.blk = "fake"
             /\ call.sort.cnt = 0 /\ call.sort.gcnt = 0
             /\ call.sort.read = FirstFull
        ELSE /\ call.sort.blk = "null"
             /\ Bucket(ar.v_arg_blk, call.sort.cnt) = SelectSeq(SortedAt, IsPlain)
             /\ Bucket(ar.v_arg_blk_gap, call.sort.gcnt) = SelectSeq(SortedAt, BM_IS_GAP)
             /\ call.sort.cnt + call.sort.gcnt =
                   Cardinality({k \in 1 .. Len(arg_bv0) : ~IS_NULL(SortedAt[k])})
             /\ call.sort.cnt + call.sort.gcnt <= Len(arg_bv0)
             /\ call.sort.read = Len(arg_bv0)

\* C17 witness: three sources, a plain block, a null block and a GAP block
\* at the coordinate: one entry in each list, the null block skipped
C17_Witness ==
    /\ call.op = "sort_input_blocks_or" /\ call.sort.blk = "null"
    /\ Len(arg_bv0) = 3 /\ call.sort.cnt = 1 /\ call.sort.gcnt = 1
    /\ IS_NULL(SortedAt[2])

\* the OR of the blocks the sources hold at block number n
OrAt(n) == UNION {arg_bv0[k].blk[n].b : k \in 1 .. Len(arg_bv0)}

\* C18 as stated: after combine_or, wherever the OR of the source blocks is
\* all ones the target slot holds the all-ones sentinel and no allocated
\* plain block, whether the ones come from a uniform source, from folding
\* plain blocks, from GAP blocks, or from a single plain block that is all
\* ones with no GAP block present.
C18_Original ==
    (call.op = "combine_or" /\ call.err = "none") =>
        \A n \in AllBlocks : is_bits_one(OrAt(n)) => IS_FULL_BLOCK(bv_target.blk[n])

\* the AND of the blocks of group 0 at block number n, and what is left of
\* it once the blocks of group 1 are subtracted (combine_and_sub only)
AndAt(n) == {b \in Bits : \A k \in 1 .. Len(arg_bv0) : b \in arg_bv0[k].blk[n].b}
SubAt(n) == UNION {arg_bv1[k].blk[n].b : k \in 1 .. Len(arg_bv1)}
ReducedAt(n) ==
    IF call.op = "combine_and_sub" THEN AndAt(n) \ SubAt(n) ELSE AndAt(n)

\* C19: after combine_and or combine_and_sub the target slot at a
\* coordinate is null whenever a source of group 0 has a null block there
\* or the reduced block has no set bit (a plain source block without set
\* bits included); a slot that holds a block holds at least one set bit.
C19_NoEmptyBlocks ==
    (call.op \in {"combine_and", "combine_and_sub"} /\ call.err = "none") =>
        \A n \in AllBlocks :
            /\ (\E k \in 1 .. Len(arg_bv0) : IS_NULL(arg_bv0[k].blk[n]))
                  => IS_NULL(bv_target.blk[n])
            /\ ReducedAt(n) = {} => IS_NULL(bv_target.blk[n])
            /\ ~IS_NULL(bv_target.blk[n]) => bv_target.blk[n].b # {}

\* C19 witness: combine_and over two sources that both hold a block at a
\* coordinate, one of them a plain block without set bits: the slot is null
C19_Witness ==
    /\ call.op = "combine_and" /\ Len(arg_bv0) = 2
    /\ \E n \in AllBlocks :
          /\ \A k \in 1 .. 2 : ~IS_NULL(arg_bv0[k].blk[n])
          /\ \E k \in 1 .. 2 : arg_bv0[k].blk[n] = BitBlk({})
          /\ IS_NULL(bv_target.blk[n])

\* ---- one coordinate of an AND / AND-SUB reduction, step by step ----

DigestBlocks ==
    {FullBlk, BitBlk({}), BitBlk({0, 1, 2}), BitBlk({1, 2, TopBit}),
     GapBlk({0, 2, TopBit}), GapBlk({1, TopBit})}
DigestSubBlocks ==
    {NullBlk, BitBlk({1}), BitBlk({0, 1}), GapBlk({2}), GapBlk({2, TopBit})}
DigestPositions == {0, set_array_size + 2}

\* lists of 0..n vectors with one block each, at p, out of blocks
RECURSIVE ListsAt(_, _, _)
ListsAt(p, n, blocks) ==
    IF n = 0 THEN {<<>>}
    ELSE With(ListsAt(p, n - 1, blocks), LAMBDA shorter :
         shorter \cup
         {Append(l, BvOf(p :> x, set_array_size)) :
              l \in {m \in shorter : Len(m) = n - 1}, x \in blocks})

\* aggregator::combine_and(i, j, ...) on one coordinate
CombineAndIJ ==
    /\ call.n < MaxCalls
    /\ \E nb \in DigestPositions :
        \E r \in {combine_and_ij([tgt |-> bv_target, ar |-> ar],
                                 nb \div set_array_size, nb % set_array_size,
                                 arg_bv0)} :
        /\ bv_target' = r.tgt
        /\ ar' = r.ar
        /\ call' = [NoCall(call.n + 1) EXCEPT
                       !.op = "combine_and_ij", !.idx = nb, !.pre = bv_target,
                       !.digest = r.digest, !.folds = r.tr]
    /\ UNCHANGED <<arg_bv0, arg_bv1>>

\* aggregator::combine_and_sub(i, j, ...) on one coordinate
CombineAndSubIJ ==
    /\ call.n < MaxCalls
    /\ \E nb \in DigestPositions :
        \E r \in {combine_and_sub_ij(ar, nb \div set_array_size,
                                     nb % set_array_size, arg_bv0, arg_bv1)} :
        /\ ar' = r.ar
        /\ call' = [NoCall(call.n + 1) EXCEPT
                       !.op = "combine_and_sub_ij", !.idx = nb,
                       !.pre = bv_target,
                       !.digest = r.digest, !.folds = r.tr]
    /\ UNCHANGED <<arg_bv0, arg_bv1, bv_target>>

InitDigest ==
    /\ \E p \in DigestPositions :
          /\ arg_bv0 \in ListsAt(p, MaxSrcMix, DigestBlocks) \ {<<>>}
          /\ arg_bv1 \in ListsAt(p, 2, DigestSubBlocks)
    /\ bv_target = BvOf(<<>>, set_array_size)
    /\ ar = NewArena({0, TopBit})
    /\ call = NoCall(MaxCalls - 1)

NextDigest == CombineAndIJ \/ CombineAndSubIJ

SpecDigest == InitDigest /\ [][NextDigest]_vars

\* C20: within one (i, j) AND or AND-SUB reduction every step after the one
\* that set the digest up gives a digest that is a subset of the digest before
\* it, the digest is empty after a step exactly when the scratch block is, and
\* a non-empty digest handed back has bit d set exactly when slice d of the
\* scratch block has a bit set.
C20_DigestMonotone ==
    call.op \in {"combine_and_ij", "combine_and_sub_ij"} =>
        /\ \A x \in 1 .. Len(call.folds) :
              /\ call.folds[x].dg \subseteq call.folds[x].prev
              /\ x > 1 => call.folds[x].prev = call.folds[x - 1].dg
              /\ call.folds[x].dg = {} <=> call.folds[x].blk = {}
        /\ call.digest # {} =>
              /\ call.digest = calc_block_digest0(ar.tb1)
              /\ call.folds # <<>>
              /\ call.digest = call.folds[Len(call.folds)].dg
              /\ ar.tb1 = call.folds[Len(call.folds)].blk
\* a reduction whose digest lost bits in two later steps, one of them a step
\* of the SUB group, and came back non-empty
C20_Witness ==
    /\ call.op = "combine_and_sub_ij"
    /\ call.digest # {}
    /\ Len(call.folds) >= 3
    /\ call.folds[1].dg = AllWaves
    /\ call.digest # AllWaves
    /\ arg_bv1 # <<>>
    /\ \E k \in 1 .. Len(arg_bv0) : arg_bv0[k].blk[call.idx].k = "gap"
    /\ \E k \in 1 .. Len(arg_bv1) : arg_bv1[k].blk[call.idx].k = "gap"

\* ---- the column range of one row ----

Rows == 0 .. (set_array_size - 1)

\* aggregator::find_effective_sub_block_size applied to one row
FindEffectiveSubBlockSize ==
    /\ call.n < MaxCalls
    /\ \E i \in Rows :
          call' = [NoCall(call.n + 1) EXCEPT
                      !.op = "find_effective_sub_block_size", !.idx = i,
                      !.jmax = find_effective_sub_block_size(i, arg_bv0)]
    /\ UNCHANGED <<arg_bv0, arg_bv1, ar, bv_target>>

InitRange ==
    /\ arg_bv0 \in SrcLists
    /\ arg_bv1 = <<>>
    /\ bv_target = NewBv(id_max)
    /\ ar = NewArena({})
    /\ call = NoCall(MaxCalls - 1)

SpecRange == InitRange /\ [][FindEffectiveSubBlockSize]_vars

\* the columns of row i where some vector of l has a block
UsedColumns(i, l) ==
    {j \in Rows : \E k \in 1 .. Len(l) : ~IS_NULL(l[k].blk[i * set_array_size + j])}
\* the smallest j_max such that every block of row i at a column >= j_max is
\* null
SmallestJMax(i, l) ==
    CHOOSE m \in 0 .. set_array_size :
        /\ \A j \in UsedColumns(i, l) : j < m
        /\ \A m2 \in 0 .. set_array_size :
              (\A j \in UsedColumns(i, l) : j < m2) => m <= m2

\* C21 as stated: find_effective_sub_block_size gives the smallest j_max such
\* that every source block of row i at a column >= j_max is null, also for a
\* row without blocks and a row whose highest block is in column 0.
C21_Original ==
    call.op = "find_effective_sub_block_size" =>
        call.jmax = SmallestJMax(call.idx, arg_bv0)
\* C21, amended: find_effective_sub_block_size gives that smallest j_max but
\* never less than 2: a row without blocks and a row whose highest block is in
\* column 0 give 2.
C21_EffectiveRange ==
    call.op = "find_effective_sub_block_size" =>
        /\ call.jmax = Max2(2, SmallestJMax(call.idx, arg_bv0))
        /\ call.jmax <= set_array_size
\* a row whose highest block is in the last column of the second source, the
\* first source having a block in a lower column
C21_Witness ==
    /\ call.op = "find_effective_sub_block_size"
    /\ Len(arg_bv0) = 2
    /\ call.jmax = set_array_size
    /\ UsedColumns(call.idx, <<arg_bv0[1]>>) # {}
    /\ set_array_size - 1 \notin UsedColumns(call.idx, <<arg_bv0[1]>>)

\* ---- one coordinate after the other of the multi-way shift-AND ----

\* aggregator::combine_shift_right_and(i, j, ...) on the coordinate call.idx;
\* folds holds the scratch block, acc and the carry flags as they are before
\* the last source is taken
CombineShiftRightAndIJ ==
    /\ call.n < MaxCalls
    /\ call.idx < set_total_blocks
    /\ \E r \in {combine_shift_right_and_ij([tgt |-> bv_target, ar |-> ar],
                                            call.idx \div set_array_size,
                                            call.idx % set_array_size,
                                            arg_bv0)} :
        /\ bv_target' = r.tgt
        /\ ar' = r.ar
        /\ call' = [NoCall(call.n + 1) EXCEPT
                       !.op = "combine_shift_right_and_ij",
                       !.idx = call.idx + 1, !.grp = call.idx,
                       !.ret = r.found, !.pre = bv_target,
                       !.folds =
                          <<shift_and_k(
                               shift_and_first(ar, get_block(arg_bv0[1],
                                   call.idx \div set_array_size,
                                   call.idx % set_array_size)),
                               1, call.idx \div set_array_size,
                               call.idx % set_array_size,
                               SubSeq(arg_bv0, 1, Len(arg_bv0) - 1))>>]
    /\ UNCHANGED <<arg_bv0, arg_bv1>>

\* the carry flags are all 0, as combine_shift_right_and sets them before
\* its first block
InitShiftStep ==
    /\ \E p \in ShiftPositions :
          /\ arg_bv0 \in {l \in ShiftLists : \A k \in 1 .. Len(l) :
                              \A n \in AllBlocks \ {p, p + 1} :
                                  IS_NULL(l[k].blk[n])}
          /\ call = [NoCall(0) EXCEPT !.idx = p]
    /\ arg_bv1 = <<>>
    /\ bv_target = BvOf(<<>>, set_array_size)
    /\ ar \in {NewArena({}), NewArena({0})}

SpecShiftStep == InitShiftStep /\ [][CombineShiftRightAndIJ]_vars

\* the last source of the group has no block at the coordinate just taken
LastSourceNull ==
    /\ call.op = "combine_shift_right_and_ij"
    /\ Len(arg_bv0) >= 2
    /\ IS_NULL(get_block(arg_bv0[Len(arg_bv0)], call.grp \div set_array_size,
                         call.grp % set_array_size))

\* C22 as stated: when source k >= 1 has a null block at (i, j) the scratch
\* block is all-zero after that source, whatever the incoming carry, the
\* saved carry is the top bit the scratch block had before, and with the last
\* source null nothing is committed at (i, j).
C22_Original ==
    LastSourceNull =>
        /\ ar.tb1 = {}
        /\ ar.carry_overs[Len(arg_bv0) - 1] =
              (IF LastBit \in call.folds[1].tb1 THEN 1 ELSE 0)
        /\ ~call.ret
        /\ bv_target = call.pre

\* bv with every block it has stored as a plain block of the same bits
PlainOf(bv) ==
    [bv EXCEPT !.blk = [n \in AllBlocks |->
                           IF IS_NULL(bv.blk[n]) THEN NullBlk
                           ELSE BitBlk(bv.blk[n].b)]]
PlainList(l) == [k \in 1 .. Len(l) |-> PlainOf(l[k])]

\* C23 as stated: the bits combine_shift_right_and leaves in the target are
\* those it leaves for the same sources with every block stored plain; a GAP
\* block of the first source counts with its expanded bits.
C23_Original ==
    (call.op = "combine_shift_right_and" /\ ~call.any) =>
        BvBits(bv_target) =
            BvBits(combine_shift_right_and(call.pre, PlainList(arg_bv0), FALSE,
                                           NewArena({})).tgt)

\* C24 as stated: combine_shift_right_and returns true exactly when the
\* target has a set bit at the return, with any = false and with any = true,
\* also when the only candidate is the tail bit of the last block.
C24_Original ==
    call.op = "combine_shift_right_and" =>
        (call.ret <=> BvBits(bv_target) # {})

\* ---- the coordinates the drivers go through ----

VisitGroups1 ==
    {<<>>} \cup {<<BvOf(q :> BitBlk({0}), MinTop(q))>> :
                    q \in {1, set_array_size + 3, set_total_blocks - 1}}

InitVisit ==
    /\ arg_bv0 \in {l \in SparsePairs : ValidList(l)}
    /\ arg_bv1 \in VisitGroups1
    /\ bv_target = NewBv(id_max)
    /\ ar = NewArena({})
    /\ call = NoCall(MaxCalls - 1)

NextVisit == CombineOr \/ CombineAnd \/ CombineAndSub \/ FindFirstAndSub

SpecVisit == InitVisit /\ [][NextVisit]_vars

\* the sources a driver reads: both groups for AND-SUB and find-first
VisitSources ==
    IF call.op \in {"combine_and_sub", "find_first_and_sub"}
    THEN arg_bv0 \o arg_bv1 ELSE arg_bv0
SeenSet == {call.seen[x] : x \in 1 .. Len(call.seen)}
\* the run went through all its rows: it did not return on a block found
RanToEnd ==
    ~(call.ret /\ (call.any \/ call.op = "find_first_and_sub"))
\* the number of the last coordinate the run went through
LastSeen ==
    call.seen[Len(call.seen)][1] * set_array_size + call.seen[Len(call.seen)][2]
DriverRan ==
    /\ call.op \in {"combine_or", "combine_and", "combine_and_sub",
                    "find_first_and_sub"}
    /\ call.err = "none"
    /\ Len(arg_bv0) > 0

ProcessBitBlocksOr ==
    /\ call.n < MaxCalls
    /\ \E s \in {sort_input_blocks_or(ar, arg_bv0, 0, 0)} :
        \E r \in {process_bit_blocks_or(s.ar, s.cnt)} :
        /\ ar' = [s.ar EXCEPT !.tb1 = r.tb1]
        /\ call' = [NoCall(call.n + 1) EXCEPT
                       !.op = "process_bit_blocks_or", !.ret = r.all_one,
                       !.sort = [blk |-> s.blk, cnt |-> s.cnt, gcnt |-> s.gcnt,
                                 read |-> s.read, nb |-> 0],
                       !.seen = r.rd]
    /\ UNCHANGED <<arg_bv0, arg_bv1, bv_target>>

InitOrFold ==
    /\ arg_bv0 \in FoldLists(MaxSrcFold)
    /\ arg_bv1 = <<>>
    /\ bv_target = NewBv(id_max)
    /\ ar \in {NewArena({}), NewArena(Bits)}
    /\ call = NoCall(MaxCalls - 1)

SpecOrFold == InitOrFold /\ [][ProcessBitBlocksOr]_vars

\* C26: process_bit_blocks_or with n collected plain blocks reads no index
\* of the plain list that is n or more and no index twice, and when no fold
\* reports all ones it reads each of 0 .. n-1 once and leaves their union in
\* the scratch block.
C26_EachIndexOnce ==
    call.op = "process_bit_blocks_or" =>
        /\ call.sort.cnt < max_aggregator_cap
        /\ \A x \in 1 .. Len(call.seen) :
              /\ call.seen[x] \in 0 .. (call.sort.cnt - 1)
              /\ \A y \in 1 .. Len(call.seen) : call.seen[x] = call.seen[y] => x = y
        /\ ~call.ret =>
              /\ {call.seen[x] : x \in 1 .. Len(call.seen)} = 0 .. (call.sort.cnt - 1)
              /\ ar.tb1 = UNION {ar.v_arg_blk[k].b : k \in 0 .. (call.sort.cnt - 1)}
\* seven plain blocks without an all-ones union: the copy, one 5-way step
\* and two single steps
C26_Witness ==
    /\ call.op = "process_bit_blocks_or"
    /\ ~call.ret
    /\ call.sort.cnt = 7
    /\ Len(call.seen) = 7
    /\ ar.tb1 # {}

\* shift_right_and ran on an initialised target and mask and came to the
\* last block with a target block there
AtLastBlock ==
    /\ call.op = "shift_right_and" /\ call.pre.init /\ call.mask.init
    /\ ~IS_NULL(call.pre.blk[set_total_blocks - 1])
    /\ \A n \in AllBlocks \ {set_total_blocks - 1} : IS_NULL(call.pre.blk[n])

\* C27 as stated: at the last block shift_right_and is well defined for
\* every state of the target block and of the mask block, a null mask block
\* included, and leaves no bit past the maximum index.
C27_Original ==
    AtLastBlock =>
        /\ call.err = "none"
        /\ LastBit \notin bv_target.blk[set_total_blocks - 1].b

\* shift_right_and ran and a carry of 1 came from the last block of row i - 1
\* into row i, which has no sub-directory in the target
CarryIntoMissingRow(i) ==
    /\ call.op = "shift_right_and" /\ call.pre.init /\ call.mask.init
    /\ i >= 1
    /\ get_topblock(call.pre, i - 1)
    /\ LastBit \in call.pre.blk[i * set_array_size - 1].b
    /\ ~get_topblock(call.pre, i)

\* C28 as stated: when a carry of 1 enters a row that is missing in the
\* target, bit 0 of target block (i, 0) becomes set iff bit 0 of the mask's
\* block (i, 0) is set, be that block plain, all-ones or GAP, and no other
\* bit of row i is set.
C28_Original ==
    \A i \in Rows :
        CarryIntoMissingRow(i) =>
            /\ call.err = "none"
            /\ bv_target.blk[i * set_array_size].b =
                  {0} \cap call.mask.blk[i * set_array_size].b
            /\ \A j \in 1 .. (set_array_size - 1) :
                  bv_target.blk[i * set_array_size + j].b = {}

============================================================================
